---------------------------- MODULE Spec2Model ----------------------------
(***************************************************************************)
(* Konsole's profile subsystem: the Profile property store with            *)
(* single-parent inheritance (Profile.h / Profile.cpp), ProfileGroup, the  *)
(* konsoleprofile command parser, and SessionManager's loading, caching    *)
(* and changing of profiles (SessionManager.cpp).                          *)
(*                                                                         *)
(* Profile objects are natural numbers (the identity of a Profile::Ptr),   *)
(* 0 is the null pointer.  QVariant values are strings; Null is the        *)
(* invalid QVariant().                                                     *)
(***************************************************************************)
EXTENDS Naturals, Integers, Sequences, FiniteSets, TLC

VARIABLES
    propertyValues,   \* Profile::_propertyValues, per object: a function from the set properties to values
    parent,           \* Profile::_parent, per object (NoProfile when null)
    hidden,           \* Profile::_hidden, per object
    groupProfiles,    \* ProfileGroup::_profiles, per ProfileGroup object: a sequence of objects
    input,            \* the text handed to ProfileCommandParser::parse
    changes,          \* the QHash ProfileCommandParser::parse returned
    files,            \* the profile files on disk: path -> [parent, values]
    profiles,         \* SessionManager::_profiles
    defaultProfile,   \* SessionManager::_defaultProfile
    recursionGuard,   \* the static QStack in SessionManager::loadProfile
    firstLoad,        \* history: resolved path -> the object the first successful load of it produced
    sessions,         \* SessionManager::_sessions: a sequence of Session objects
    sessionProfiles,  \* SessionManager::_sessionProfiles: Session -> profile
    sessionRuntimeProfiles, \* SessionManager::_sessionRuntimeProfiles: Session -> profile
    sessionSettings,  \* per Session: what its setters were last called with
    favorites,        \* SessionManager::_favorites
    loadedFavorites,  \* SessionManager::_loadedFavorites
    shortcuts,        \* SessionManager::_shortcuts: key sequence -> ShortcutData
    konsolerc,        \* the persisted settings: DefaultProfile, Favorites, Profile Shortcuts
    favoriteReads,    \* history: how often the Favorites key was looked up
    sessionConfig,    \* the KConfig saveSessions writes: the Profile entry of Session 1, 2, ...
    last,             \* the operation that ran last, its arguments and what it returned
    ops               \* number of operations run so far

vars == <<propertyValues, parent, hidden, groupProfiles, input, changes,
          files, profiles, defaultProfile, recursionGuard, firstLoad,
          sessions, sessionProfiles, sessionRuntimeProfiles, sessionSettings,
          favorites, loadedFavorites, shortcuts, konsolerc, favoriteReads, sessionConfig,
          last, ops>>

profileVars == <<propertyValues, parent, hidden, groupProfiles>>
parserVars  == <<input, changes>>
sessionVars == <<sessions, sessionProfiles, sessionRuntimeProfiles, sessionSettings>>
settingsVars == <<favorites, loadedFavorites, shortcuts, konsolerc, favoriteReads,
                  sessionConfig>>
managerVars == <<files, profiles, defaultProfile, recursionGuard, firstLoad, sessionVars,
                 settingsVars>>

-----------------------------------------------------------------------------
(* Bounds of the model *)

\* operations per behaviour of the Profile / ProfileGroup specifications
MaxOps == 4
\* operations per behaviour of the SessionManager specification
MaxManagerOps == 2
\* segments of a konsoleprofile command
MaxSegments == 2
\* calls of Profile::clone per behaviour of the clone specification
MaxClones == 1

-----------------------------------------------------------------------------
(* Values *)

NoProfile == 0
Null == "(null)"
\* QString::isEmpty() of a QVariant converted to QString: null and "" are both empty
IsEmpty(v) == v = Null \/ v = ""

\* f with its domain cut down to keys
Restrict(f, keys) == [k \in keys |-> f[k]]

\* the values setProperty is called with
Values == {"a", "b"}

-----------------------------------------------------------------------------
(* Profile::DefaultPropertyNames, Profile.cpp:64-126.  NoGroup is the 0     *)
(* group pointer of a property that is never written to disk.              *)

NoGroup == "(none)"

DefaultPropertyNames == <<
    [property |-> "Path",                        name |-> "Path",                        group |-> NoGroup],
    [property |-> "Name",                        name |-> "Name",                        group |-> "General"],
    [property |-> "Title",                       name |-> "Title",                       group |-> NoGroup],
    [property |-> "Icon",                        name |-> "Icon",                        group |-> "General"],
    [property |-> "Command",                     name |-> "Command",                     group |-> NoGroup],
    [property |-> "Arguments",                   name |-> "Arguments",                   group |-> NoGroup],
    [property |-> "Environment",                 name |-> "Environment",                 group |-> "General"],
    [property |-> "Directory",                   name |-> "Directory",                   group |-> "General"],
    [property |-> "LocalTabTitleFormat",         name |-> "LocalTabTitleFormat",         group |-> "General"],
    [property |-> "LocalTabTitleFormat",         name |-> "tabtitle",                    group |-> NoGroup],
    [property |-> "RemoteTabTitleFormat",        name |-> "RemoteTabTitleFormat",        group |-> "General"],
    [property |-> "ShowMenuBar",                 name |-> "ShowMenuBar",                 group |-> "General"],
    [property |-> "ShowTerminalSizeHint",        name |-> "ShowTerminalSizeHint",        group |-> "General"],
    [property |-> "SaveGeometryOnExit",          name |-> "SaveGeometryOnExit",          group |-> "General"],
    [property |-> "TabBarMode",                  name |-> "TabBarMode",                  group |-> "General"],
    [property |-> "TabBarPosition",              name |-> "TabBarPosition",              group |-> "General"],
    [property |-> "NewTabBehavior",              name |-> "NewTabBehavior",              group |-> "General"],
    [property |-> "StartInCurrentSessionDir",    name |-> "StartInCurrentSessionDir",    group |-> "General"],
    [property |-> "ShowNewAndCloseTabButtons",   name |-> "ShowNewAndCloseTabButtons",   group |-> "General"],
    [property |-> "MenuIndex",                   name |-> "MenuIndex",                   group |-> "General"],
    [property |-> "SilenceSeconds",              name |-> "SilenceSeconds",              group |-> "General"],
    [property |-> "Font",                        name |-> "Font",                        group |-> "Appearance"],
    [property |-> "ColorScheme",                 name |-> "ColorScheme",                 group |-> "Appearance"],
    [property |-> "ColorScheme",                 name |-> "colors",                      group |-> NoGroup],
    [property |-> "AntiAliasFonts",              name |-> "AntiAliasFonts",              group |-> "Appearance"],
    [property |-> "BoldIntense",                 name |-> "BoldIntense",                 group |-> "Appearance"],
    [property |-> "KeyBindings",                 name |-> "KeyBindings",                 group |-> "Keyboard"],
    [property |-> "HistoryMode",                 name |-> "HistoryMode",                 group |-> "Scrolling"],
    [property |-> "HistorySize",                 name |-> "HistorySize",                 group |-> "Scrolling"],
    [property |-> "ScrollBarPosition",           name |-> "ScrollBarPosition",           group |-> "Scrolling"],
    [property |-> "BlinkingTextEnabled",         name |-> "BlinkingTextEnabled",         group |-> "Terminal Features"],
    [property |-> "FlowControlEnabled",          name |-> "FlowControlEnabled",          group |-> "Terminal Features"],
    [property |-> "AllowProgramsToResizeWindow", name |-> "AllowProgramsToResizeWindow", group |-> "Terminal Features"],
    [property |-> "BidiRenderingEnabled",        name |-> "BidiRenderingEnabled",        group |-> "Terminal Features"],
    [property |-> "CJKAmbiguousWide",            name |-> "CJKAmbiguousWide",            group |-> "Terminal Features"],
    [property |-> "BlinkingCursorEnabled",       name |-> "BlinkingCursorEnabled",       group |-> "Terminal Features"],
    [property |-> "UseCustomCursorColor",        name |-> "UseCustomCursorColor",        group |-> "Cursor Options"],
    [property |-> "CursorShape",                 name |-> "CursorShape",                 group |-> "Cursor Options"],
    [property |-> "CustomCursorColor",           name |-> "CustomCursorColor",           group |-> "Cursor Options"],
    [property |-> "WordCharacters",              name |-> "WordCharacters",              group |-> "Interaction Options"],
    [property |-> "TripleClickMode",             name |-> "TripleClickMode",             group |-> "Interaction Options"],
    [property |-> "UnderlineLinksEnabled",       name |-> "UnderlineLinksEnabled",       group |-> "Interaction Options"],
    [property |-> "DefaultEncoding",             name |-> "DefaultEncoding",             group |-> "Encoding Options"] >>

\* enum Profile::Property, the enumerators the table names
Property == {DefaultPropertyNames[i].property : i \in DOMAIN DefaultPropertyNames}

\* the properties the callers of this model set; every other property stays unset
SetByCallers == {"Path", "Name", "Icon", "Directory"}

-----------------------------------------------------------------------------
(* Profile *)

Objects == DOMAIN propertyValues
IsGroup(p) == p \in DOMAIN groupProfiles

canInheritProperty_NameOnly(prop) == prop # "Name"

\* Profile::canInheritProperty
canInheritProperty(prop) == prop # "Name" /\ prop # "Path"

\* Profile::isPropertySet on the store pv
isPropertySet(pv, p, prop) == prop \in DOMAIN pv[p]

RECURSIVE property(_, _, _, _)
\* Profile::property<QVariant> read from the store (pv, par)
property(pv, par, p, prop) ==
    IF prop \in DOMAIN pv[p] THEN pv[p][prop]
    ELSE IF par[p] # NoProfile /\ canInheritProperty(prop)
         THEN property(pv, par, par[p], prop)
         ELSE Null

\* Profile::property on the current state
Prop(p, prop) == property(propertyValues, parent, p, prop)

\* Profile::setProperty: QHash::insert
setProperty(pv, p, prop, value) ==
    [pv EXCEPT ![p] = [x \in DOMAIN pv[p] \cup {prop} |->
                          IF x = prop THEN value ELSE pv[p][x]]]

\* the objects reached from p by following parent(), p included
RECURSIVE Ancestors(_, _)
Ancestors(par, p) ==
    IF p = NoProfile THEN {} ELSE {p} \cup Ancestors(par, par[p])

-----------------------------------------------------------------------------
(* ProfileGroup *)

\* the loop over _profiles in ProfileGroup::updateValues, from member i on,
\* with the candidate value found so far
RECURSIVE scanProfiles(_, _, _, _, _, _)
scanProfiles(pv, par, members, prop, i, value) ==
    IF i > Len(members) THEN value
    ELSE LET profileValue == property(pv, par, members[i], prop) IN
         IF value = Null THEN scanProfiles(pv, par, members, prop, i + 1, profileValue)
         ELSE IF value # profileValue THEN Null
         ELSE scanProfiles(pv, par, members, prop, i + 1, value)

\* ProfileGroup::updateValues of group g: the new store
updateValues(pv, par, gp, g) ==
    LET members == gp[g]
        skipped(prop) == Len(members) > 1 /\ ~canInheritProperty(prop)
        written == {prop \in Property : ~skipped(prop)}
    IN  [pv EXCEPT ![g] = [x \in DOMAIN pv[g] \cup written |->
            IF x \in written
            THEN scanProfiles(pv, par, members, x, 1, Null)
            ELSE pv[g][x]]]

\* the foreach over _profiles in ProfileGroup::setProperty, from member i on
RECURSIVE setInMembers(_, _, _, _, _)
setInMembers(pv, members, i, prop, value) ==
    IF i > Len(members) THEN pv
    ELSE setInMembers(setProperty(pv, members[i], prop, value), members, i + 1, prop, value)

groupSetProperty_AlwaysFanOut(pv, gp, g, prop, value) ==
    setInMembers(setProperty(pv, g, prop, value), gp[g], 1, prop, value)

groupSetProperty_GuardNonEmpty(pv, gp, g, prop, value) ==
    IF Len(gp[g]) > 0 /\ ~canInheritProperty(prop) THEN pv
    ELSE setInMembers(setProperty(pv, g, prop, value), gp[g], 1, prop, value)

\* ProfileGroup::setProperty of group g: the new store
groupSetProperty(pv, gp, g, prop, value) ==
    IF Len(gp[g]) > 1 /\ ~canInheritProperty(prop) THEN pv
    ELSE setInMembers(setProperty(pv, g, prop, value), gp[g], 1, prop, value)

\* virtual dispatch of setProperty on a Profile::Ptr
virtualSetProperty(pv, gp, p, prop, value) ==
    IF p \in DOMAIN gp THEN groupSetProperty(pv, gp, p, prop, value)
    ELSE setProperty(pv, p, prop, value)

\* QList::removeAll
RECURSIVE removeAll(_, _)
removeAll(list, x) ==
    IF list = <<>> THEN <<>>
    ELSE IF Head(list) = x THEN removeAll(Tail(list), x)
    ELSE <<Head(list)>> \o removeAll(Tail(list), x)

-----------------------------------------------------------------------------
(* Operations on profiles and on one group *)

NoOp == [op |-> "none"]

\* Profile(parent) constructor: no property set, not hidden
EmptyProfile == <<>>

Idle == /\ input = <<>>
        /\ changes = <<>>
        /\ files = <<>>
        /\ profiles = {}
        /\ defaultProfile = NoProfile
        /\ recursionGuard = <<>>
        /\ firstLoad = <<>>
        /\ sessions = <<>>
        /\ sessionProfiles = <<>>
        /\ sessionRuntimeProfiles = <<>>
        /\ sessionSettings = <<>>
        /\ favorites = {}
        /\ loadedFavorites = FALSE
        /\ shortcuts = <<>>
        /\ konsolerc = <<>>
        /\ favoriteReads = 0
        /\ sessionConfig = <<>>

\* three profiles, just constructed
InitProfile ==
    /\ propertyValues = [p \in 1..3 |-> EmptyProfile]
    /\ parent = [p \in 1..3 |-> NoProfile]
    /\ hidden = [p \in 1..3 |-> FALSE]
    /\ groupProfiles = <<>>
    /\ last = NoOp
    /\ ops = 0
    /\ Idle

\* Profile::setProperty(prop, value) on the plain profile p
ProfileSetProperty(p, prop, value) ==
    /\ ops < MaxOps
    /\ ~IsGroup(p)
    /\ propertyValues' = setProperty(propertyValues, p, prop, value)
    /\ last' = [op |-> "setProperty"]
    /\ ops' = ops + 1
    /\ UNCHANGED <<parent, hidden, groupProfiles, parserVars, managerVars>>

\* Profile::setParent(q) on p.  A parent is an object built before any
\* object that refers to it, so the chain of q never leads back to p.
ProfileSetParent(p, q) ==
    /\ ops < MaxOps
    /\ ~IsGroup(p)
    /\ p \notin Ancestors(parent, q)
    /\ parent' = [parent EXCEPT ![p] = q]
    /\ last' = [op |-> "setParent"]
    /\ ops' = ops + 1
    /\ UNCHANGED <<propertyValues, hidden, groupProfiles, parserVars, managerVars>>

\* a clone that copies Name and Path like every other property
clone_All(pv, par, gp, target, source, differentOnly) ==
    LET copied == {x \in Property :
                      ~differentOnly \/ property(pv, par, target, x) # property(pv, par, source, x)}
        receivers == IF target \in DOMAIN gp
                     THEN {target} \cup {gp[target][i] : i \in DOMAIN gp[target]}
                     ELSE {target}
    IN  [o \in DOMAIN pv |->
            IF o \in receivers
            THEN [x \in DOMAIN pv[o] \cup copied |->
                     IF x \in copied THEN property(pv, par, source, x) ELSE pv[o][x]]
            ELSE pv[o]]

\* Profile::clone: the new store.  The pass of the loop for a property reads
\* and sets that property only, so the passes are taken together: copied
\* are the properties the loop calls setProperty for, which on a
\* ProfileGroup also sets them in every member (none of them is Name or
\* Path).
clone(pv, par, gp, target, source, differentOnly) ==
    LET copied == {x \in Property \ {"Name", "Path"} :
                      ~differentOnly \/ property(pv, par, target, x) # property(pv, par, source, x)}
        receivers == IF target \in DOMAIN gp
                     THEN {target} \cup {gp[target][i] : i \in DOMAIN gp[target]}
                     ELSE {target}
    IN  [o \in DOMAIN pv |->
            IF o \in receivers
            THEN [x \in DOMAIN pv[o] \cup copied |->
                     IF x \in copied THEN property(pv, par, source, x) ELSE pv[o][x]]
            ELSE pv[o]]

\* Profile::clone(source, differentOnly) on target
ProfileClone(target, source, differentOnly) ==
    /\ ops < MaxClones
    /\ propertyValues' = clone(propertyValues, parent, groupProfiles,
                               target, source, differentOnly)
    /\ last' = [op |-> "clone", target |-> target, source |-> source,
                differentOnly |-> differentOnly]
    /\ ops' = ops + 1
    /\ UNCHANGED <<parent, hidden, groupProfiles, parserVars, managerVars>>

NextProfile ==
    \/ \E p \in Objects, prop \in SetByCallers, value \in Values :
           ProfileSetProperty(p, prop, value)
    \/ \E p \in Objects, q \in Objects \cup {NoProfile} : ProfileSetParent(p, q)

SpecProfile == InitProfile /\ [][NextProfile]_vars

\* C1: for every profile P with a parent Q and every property X, property(X)
\* is P's own value when P has X set; otherwise, for an inheritable X, it is
\* Q.property(X), which is the value of the nearest profile up the chain that
\* has X set (null if none has); for Name and Path it is null whatever Q holds.
C1_PropertyInheritance ==
    \A p \in Objects, x \in Property :
        LET q == parent[p]
            setters == {a \in Ancestors(parent, p) : x \in DOMAIN propertyValues[a]}
            nearest == CHOOSE a \in setters : setters \subseteq Ancestors(parent, a)
        IN  q # NoProfile =>
              /\ x \in DOMAIN propertyValues[p] => Prop(p, x) = propertyValues[p][x]
              /\ x \notin DOMAIN propertyValues[p] /\ x \notin {"Name", "Path"} =>
                     /\ Prop(p, x) = Prop(q, x)
                     /\ Prop(p, x) = IF setters = {} THEN Null
                                     ELSE propertyValues[nearest][x]
              /\ x \notin DOMAIN propertyValues[p] /\ x \in {"Name", "Path"} =>
                     Prop(p, x) = Null

\* a chain of three profiles: Icon comes from the grandparent, and the
\* parent's Name and Path are not seen through the child
C1_Witness ==
    \E p \in Objects :
        /\ parent[p] # NoProfile /\ parent[parent[p]] # NoProfile
        /\ propertyValues[p] = <<>>
        /\ DOMAIN propertyValues[parent[p]] = {"Path"}
        /\ "Icon" \in DOMAIN propertyValues[parent[parent[p]]]
        /\ Prop(p, "Icon") = propertyValues[parent[parent[p]]]["Icon"]
        /\ Prop(p, "Path") = Null

-----------------------------------------------------------------------------
(* One ProfileGroup and the profiles it is given *)

\* the group object, the profiles that are added to it, and a parent
G == 4
Members == {1, 2}
Base == 3

\* two profiles and a group, just constructed; profile 1 was constructed
\* with the parent Base, which has its Icon set
InitGroup ==
    /\ propertyValues = [p \in 1..4 |-> IF p = Base THEN [x \in {"Icon"} |-> "a"]
                                         ELSE EmptyProfile]
    /\ parent = [p \in 1..4 |-> IF p = 1 THEN Base ELSE NoProfile]
    /\ hidden = [p \in 1..4 |-> p = G]
    /\ groupProfiles = [g \in {G} |-> <<>>]
    /\ last = NoOp
    /\ ops = 0
    /\ Idle

\* ProfileGroup::addProfile
GroupAddProfile(p) ==
    /\ ops < MaxOps
    /\ groupProfiles' = [groupProfiles EXCEPT ![G] = Append(@, p)]
    /\ last' = [op |-> "addProfile"]
    /\ ops' = ops + 1
    /\ UNCHANGED <<propertyValues, parent, hidden, parserVars, managerVars>>

\* ProfileGroup::removeProfile
GroupRemoveProfile(p) ==
    /\ ops < MaxOps
    /\ groupProfiles' = [groupProfiles EXCEPT ![G] = removeAll(@, p)]
    /\ last' = [op |-> "removeProfile"]
    /\ ops' = ops + 1
    /\ UNCHANGED <<propertyValues, parent, hidden, parserVars, managerVars>>

\* ProfileGroup::updateValues
GroupUpdateValues ==
    /\ ops < MaxOps
    /\ propertyValues' = updateValues(propertyValues, parent, groupProfiles, G)
    /\ last' = [op |-> "updateValues"]
    /\ ops' = ops + 1
    /\ UNCHANGED <<parent, hidden, groupProfiles, parserVars, managerVars>>

\* ProfileGroup::setProperty(prop, value)
GroupSetProperty(prop, value) ==
    /\ ops < MaxOps
    /\ propertyValues' = groupSetProperty(propertyValues, groupProfiles, G, prop, value)
    /\ last' = [op |-> "groupSetProperty", property |-> prop, value |-> value]
    /\ ops' = ops + 1
    /\ UNCHANGED <<parent, hidden, groupProfiles, parserVars, managerVars>>

NextGroup ==
    \/ \E p \in Members, prop \in SetByCallers, value \in Values :
           ProfileSetProperty(p, prop, value)
    \/ \E p \in Members : GroupAddProfile(p)
    \/ \E p \in Members : GroupRemoveProfile(p)
    \/ GroupUpdateValues
    \/ \E prop \in SetByCallers, value \in Values : GroupSetProperty(prop, value)

SpecGroup == InitGroup /\ [][NextGroup]_vars

\* the value the group g stores for prop is v
Stores(g, prop, v) ==
    prop \in DOMAIN propertyValues[g] /\ propertyValues[g][prop] = v

\* the members of group g are different profiles
DistinctMembers(g) ==
    \A i, j \in DOMAIN groupProfiles[g] :
        i # j => groupProfiles[g][i] # groupProfiles[g][j]

\* C6: after updateValues() on a group of two or more members, for every
\* inheritable property: when all members resolve it to the same value the
\* group stores that value, and when some member's value differs from the
\* first member's (a null first value included) the group stores null.
C6_UpdateValuesCommonOrNull ==
    (last.op = "updateValues" /\ Len(groupProfiles[G]) >= 2 /\ DistinctMembers(G)) =>
        \A x \in Property \ {"Name", "Path"} :
            LET m == groupProfiles[G]
                first == Prop(m[1], x)
            IN  /\ (\A i \in DOMAIN m : Prop(m[i], x) = first) => Stores(G, x, first)
                /\ (\E i \in DOMAIN m : Prop(m[i], x) # first) => Stores(G, x, Null)

\* C7: right after updateValues() on a group of more than one member the
\* group's Name and Path are null or unset, whatever was done before.
C7_UpdateValuesClearsNameAndPath ==
    (last.op = "updateValues" /\ Len(groupProfiles[G]) > 1 /\ DistinctMembers(G)) =>
        \A x \in {"Name", "Path"} :
            x \notin DOMAIN propertyValues[G] \/ propertyValues[G][x] = Null

\* C8: ProfileGroup::setProperty of Name or Path on a group of more than one
\* member changes no stored property, of the group or of any profile.
C8_GroupSetNameOrPathIsNoOp ==
    [][(/\ last'.op = "groupSetProperty"
        /\ last'.property \in {"Name", "Path"}
        /\ Len(groupProfiles[G]) > 1) => propertyValues' = propertyValues]_vars

\* setProperty(Name or Path, v) was called on a group of two members, none
\* of which holds v
C8_Witness ==
    /\ last.op = "groupSetProperty"
    /\ last.property \in {"Name", "Path"}
    /\ Len(groupProfiles[G]) > 1
    /\ DistinctMembers(G)
    /\ \A i \in DOMAIN groupProfiles[G] :
           Prop(groupProfiles[G][i], last.property) # last.value
    /\ ~Stores(G, last.property, last.value)

-----------------------------------------------------------------------------
(* ProfileCommandParser.  A QString is a string; position k of the code    *)
(* (from 0) is character k + 1 here.                                       *)

At(s, k) == SubSeq(s, k + 1, k + 1)

UpperCase == "ABCDEFGHIJKLMNOPQRSTUVWXYZ"
LowerCase == "abcdefghijklmnopqrstuvwxyz"

\* [a-zA-Z]
IsLetter(c) == \E i \in 0..25 : c = At(UpperCase, i) \/ c = At(LowerCase, i)

\* QString::toLower
RECURSIVE toLower(_)
toLower(s) ==
    IF Len(s) = 0 THEN ""
    ELSE LET c == At(s, 0)
             lc == IF \E i \in 0..25 : c = At(UpperCase, i)
                   THEN At(LowerCase, CHOOSE i \in 0..25 : c = At(UpperCase, i))
                   ELSE c
         IN  lc \o toLower(SubSeq(s, 2, Len(s)))

\* QString::indexOf(ch, from): the first position >= from holding ch, or -1
RECURSIVE indexOf(_, _, _)
indexOf(s, ch, from) ==
    IF from >= Len(s) THEN -1
    ELSE IF At(s, from) = ch THEN from
    ELSE indexOf(s, ch, from + 1)

\* the first position >= from that holds no letter (Len(s) if none)
RECURSIVE endOfLetters(_, _)
endOfLetters(s, from) ==
    IF from >= Len(s) \/ ~IsLetter(At(s, from)) THEN from
    ELSE endOfLetters(s, from + 1)

\* the first position >= from that holds a semicolon (Len(s) if none)
endOfValue(s, from) ==
    IF indexOf(s, ";", from) = -1 THEN Len(s) ELSE indexOf(s, ";", from)

\* whether ([a-zA-Z]+)=([^;]+) matches starting at position k
matchesAt(s, k) ==
    LET e == endOfLetters(s, k) IN
        /\ k < Len(s)
        /\ e > k
        /\ e + 1 < Len(s)
        /\ At(s, e) = "="
        /\ At(s, e + 1) # ";"

\* QRegExp::indexIn(input, offset) for ([a-zA-Z]+)=([^;]+): the leftmost
\* position >= offset where the expression matches, or -1
RECURSIVE indexIn(_, _)
indexIn(s, offset) ==
    IF offset >= Len(s) THEN -1
    ELSE IF matchesAt(s, offset) THEN offset
    ELSE indexIn(s, offset + 1)

\* capturedTexts()[1] and [2] of the match at position k
capturedName(s, k) == SubSeq(s, k + 1, endOfLetters(s, k))
capturedValue(s, k) ==
    SubSeq(s, endOfLetters(s, k) + 2, endOfValue(s, endOfLetters(s, k) + 1))

\* Profile::_propertyInfoByName after fillTableWithDefaultNames: the lower-cased
\* names of the table and the property each stands for
propertyInfoByName ==
    [n \in {toLower(DefaultPropertyNames[i].name) : i \in DOMAIN DefaultPropertyNames} |->
        DefaultPropertyNames[CHOOSE i \in DOMAIN DefaultPropertyNames :
                                 toLower(DefaultPropertyNames[i].name) = n].property]

\* the enumerator of Profile::Property whose value is 0 (Profile.h:85): the
\* property of the PropertyInfo() that QHash::operator[] inserts for a
\* missing key
ZeroProperty == "Path"

\* Profile::lookupByName
lookupByName(name) ==
    IF toLower(name) \in DOMAIN propertyInfoByName
    THEN propertyInfoByName[toLower(name)]
    ELSE ZeroProperty

\* QHash::insert
hashInsert(h, key, value) ==
    [x \in DOMAIN h \cup {key} |-> IF x = key THEN value ELSE h[x]]

\* the while loop of ProfileCommandParser::parse, entered with offset and
\* the changes found so far
RECURSIVE parseFrom(_, _, _)
parseFrom(s, offset, found) ==
    LET k == indexIn(s, offset) IN
    IF k = -1 THEN found
    ELSE LET next == hashInsert(found, lookupByName(capturedName(s, k)),
                                capturedValue(s, k))
             newOffset == indexOf(s, ";", offset) + 1
         IN  IF newOffset = 0 THEN next ELSE parseFrom(s, newOffset, next)

\* ProfileCommandParser::parse
parse(s) == parseFrom(s, 0, <<>>)

\* the segments a command is put together from
Segments == {"Icon=term", "BadKey=x", "Directory=/tmp", "icon=a=b",
             "TABTITLE=%d", "=x", "Name", "7up=1"}

RECURSIVE CommandsOf(_)
CommandsOf(n) ==
    IF n = 0 THEN {""}
    ELSE Segments \cup {c \o ";" \o seg : c \in CommandsOf(n - 1), seg \in Segments}

Commands == CommandsOf(MaxSegments) \cup {"Icon=term;BadKey=x;Directory=/tmp"}

InitParser ==
    /\ input \in Commands
    /\ changes = <<>>
    /\ propertyValues = <<>>
    /\ parent = <<>>
    /\ hidden = <<>>
    /\ groupProfiles = <<>>
    /\ files = <<>>
    /\ profiles = {}
    /\ defaultProfile = NoProfile
    /\ recursionGuard = <<>>
    /\ firstLoad = <<>>
    /\ sessions = <<>>
    /\ sessionProfiles = <<>>
    /\ sessionRuntimeProfiles = <<>>
    /\ sessionSettings = <<>>
    /\ favorites = {}
    /\ loadedFavorites = FALSE
    /\ shortcuts = <<>>
    /\ konsolerc = <<>>
    /\ favoriteReads = 0
    /\ sessionConfig = <<>>
    /\ last = NoOp
    /\ ops = 0

\* ProfileCommandParser::parse(input)
Parse ==
    /\ ops = 0
    /\ changes' = parse(input)
    /\ last' = [op |-> "parse"]
    /\ ops' = 1
    /\ UNCHANGED <<input, profileVars, managerVars>>

NextParser == Parse

SpecParser == InitParser /\ [][NextParser]_vars

\* the names written before an = sign in s from position k on
RECURSIVE NamesBeforeEquals(_, _)
NamesBeforeEquals(s, k) ==
    IF k >= Len(s) THEN {}
    ELSE (IF At(s, k) = "=" THEN {SubSeq(s, j + 1, k) : j \in 0..(k - 1)} ELSE {})
         \cup NamesBeforeEquals(s, k + 1)

\* C2: the map parse() returns has an entry only for a registered name or
\* alias (in any case) that the input assigns to; an unregistered name adds
\* no entry, so Icon=term;BadKey=x;Directory=/tmp gives exactly Icon and
\* Directory.
C2_UnknownNamesDropped ==
    last.op = "parse" =>
        /\ \A prop \in DOMAIN changes :
               \E n \in NamesBeforeEquals(input, 0) :
                   /\ toLower(n) \in DOMAIN propertyInfoByName
                   /\ propertyInfoByName[toLower(n)] = prop
        /\ input = "Icon=term;BadKey=x;Directory=/tmp" =>
               changes = [x \in {"Icon", "Directory"} |->
                             IF x = "Icon" THEN "term" ELSE "/tmp"]

-----------------------------------------------------------------------------
(* Paths and profile files *)

\* the path of the fallback profile, Profile.cpp:155
FallbackPath == "FALLBACK/"
\* KGlobal::dirs()->saveLocation("data", "konsole/"): the user's writable directory
SaveLocation == "/home/konsole/"
\* the directories KStandardDirs searches for "data" resources, the user's first
DataDirs == <<"/home/", "/usr/">>
\* the directories that exist
Directories == {"/home/konsole/", "/usr/konsole/", "/home/konsole", "/usr/konsole"}

\* QVariant::value<QString>(): an invalid QVariant gives the null QString,
\* which equals ""
asString(v) == IF v = Null THEN "" ELSE v

\* QString::startsWith / QString::endsWith
startsWith(s, prefix) ==
    Len(s) >= Len(prefix) /\ SubSeq(s, 1, Len(prefix)) = prefix
endsWith(s, suffix) ==
    Len(s) >= Len(suffix) /\ SubSeq(s, Len(s) - Len(suffix) + 1, Len(s)) = suffix

\* QString::lastIndexOf(ch), searching backwards from position k; -1 if none
RECURSIVE lastIndexOf(_, _, _)
lastIndexOf(s, ch, k) ==
    IF k < 0 THEN -1
    ELSE IF At(s, k) = ch THEN k
    ELSE lastIndexOf(s, ch, k - 1)

\* QFileInfo::fileName: what follows the last slash
fileName(s) == SubSeq(s, lastIndexOf(s, "/", Len(s) - 1) + 2, Len(s))

\* QFileInfo::suffix: what follows the last dot of the file name
fileSuffix(s) ==
    LET name == fileName(s)
        dot == lastIndexOf(name, ".", Len(name) - 1)
    IN  IF dot = -1 THEN "" ELSE SubSeq(name, dot + 2, Len(name))

\* QFileInfo::path: what precedes the last slash, "." when there is none
filePath(s) ==
    LET slash == lastIndexOf(s, "/", Len(s) - 1)
    IN  IF slash = -1 THEN "."
        ELSE IF slash = 0 THEN "/"
        ELSE SubSeq(s, 1, slash)

\* QFileInfo::isAbsolute
isAbsolute(s) == Len(s) > 0 /\ At(s, 0) = "/"

\* QFileInfo::isDir
isDir(s) == s \in Directories

\* QFile::exists
fileExists(fs, path) == path \in DOMAIN fs

\* KStandardDirs::locate("data", rel): the first data directory that holds
\* rel, or the empty string
RECURSIVE locateFrom(_, _, _)
locateFrom(fs, rel, i) ==
    IF i > Len(DataDirs) THEN ""
    ELSE IF fileExists(fs, DataDirs[i] \o rel) THEN DataDirs[i] \o rel
    ELSE locateFrom(fs, rel, i + 1)

locate(fs, rel) == locateFrom(fs, rel, 1)

\* a profile file: the Parent key of [General] (Null when the key is absent),
\* its Command key, and the keys named after the properties that have a group
NoFile == [parent |-> Null, command |-> Null, values |-> <<>>, writable |-> TRUE]

\* KConfig::sync writes a file only where the user may write: a file that
\* exists read-only is left as it is
isWritable(fs, path) == ~fileExists(fs, path) \/ fs[path].writable

\* the names KDE4ProfileWriter::writeProperties and
\* KDE4ProfileReader::readProperties go through: the rows that have a group
GroupedRows == {i \in DOMAIN DefaultPropertyNames : DefaultPropertyNames[i].group # NoGroup}

\* the row of the table that carries name
RowOfName(name) ==
    CHOOSE i \in DOMAIN DefaultPropertyNames : DefaultPropertyNames[i].name = name

-----------------------------------------------------------------------------
(* ShellCommand.  A QStringList is written as its items separated by       *)
(* single spaces; the items are non-empty and hold no space.               *)

\* ShellCommand(command, arguments).fullCommand(): the program followed by
\* its arguments
fullCommand(command, arguments) ==
    IF arguments = "" THEN command ELSE command \o " " \o arguments

\* ShellCommand(fullCommand).command(): the first word
shellCommand(full) ==
    IF indexOf(full, " ", 0) = -1 THEN full ELSE SubSeq(full, 1, indexOf(full, " ", 0))

\* ShellCommand(fullCommand).arguments(): the words after the first
shellArguments(full) ==
    IF indexOf(full, " ", 0) = -1 THEN ""
    ELSE SubSeq(full, indexOf(full, " ", 0) + 2, Len(full))

-----------------------------------------------------------------------------
(* KDE4ProfileReader / KDE4ProfileWriter *)

\* KDE4ProfileReader::readProperties: the properties of p after the keys of
\* the file were read into it
readProperties(pv, p, file) ==
    LET keys == {DefaultPropertyNames[i].name : i \in GroupedRows} \cap DOMAIN file.values
        props == {DefaultPropertyNames[RowOfName(k)].property : k \in keys}
    IN  [pv EXCEPT ![p] = [x \in DOMAIN pv[p] \cup props |->
            IF x \in props
            THEN file.values[CHOOSE k \in keys :
                                 DefaultPropertyNames[RowOfName(k)].property = x]
            ELSE pv[p][x]]]

\* KDE4ProfileReader::readProfile: [result, parentProfile, pv]
readProfile(fs, pv, path, p) ==
    IF ~fileExists(fs, path)
    THEN [result |-> FALSE, parentProfile |-> "", pv |-> pv]
    ELSE LET withCommand ==
                 IF fs[path].command = Null THEN pv
                 ELSE setProperty(setProperty(pv, p, "Command", shellCommand(fs[path].command)),
                                  p, "Arguments", shellArguments(fs[path].command))
         IN  [result |-> TRUE,
              parentProfile |-> asString(fs[path].parent),
              pv |-> readProperties(withCommand, p, fs[path])]

\* KDE4ProfileWriter::getPath
getPath(pv, par, p) ==
    IF isPropertySet(pv, p, "Path")
       /\ startsWith(asString(property(pv, par, p, "Path")), SaveLocation)
    THEN asString(property(pv, par, p, "Path"))
    ELSE SaveLocation \o asString(property(pv, par, p, "Name")) \o ".profile"

\* a writer that writes every grouped property that resolves to a value,
\* set in p or inherited
writeProperties_Resolved(pv, par, p, values) ==
    LET written == {i \in GroupedRows :
                       property(pv, par, p, DefaultPropertyNames[i].property) # Null}
        keys == {DefaultPropertyNames[i].name : i \in written}
    IN  [k \in DOMAIN values \cup keys |->
            IF k \in keys
            THEN property(pv, par, p, DefaultPropertyNames[RowOfName(k)].property)
            ELSE values[k]]

\* KDE4ProfileWriter::writeProperties: the keys of the file after the set
\* properties of p were written over them
writeProperties(pv, par, p, values) ==
    LET written == {i \in GroupedRows : isPropertySet(pv, p, DefaultPropertyNames[i].property)}
        keys == {DefaultPropertyNames[i].name : i \in written}
    IN  [k \in DOMAIN values \cup keys |->
            IF k \in keys
            THEN property(pv, par, p, DefaultPropertyNames[RowOfName(k)].property)
            ELSE values[k]]

\* KDE4ProfileWriter::writeProfile: the file system after p was written to
\* path.  KConfig keeps the keys a file at path already has.  The method
\* returns true in every case.
writeProfile(fs, pv, par, path, p) ==
    LET old == IF fileExists(fs, path) THEN fs[path] ELSE NoFile
        new == [parent  |-> IF par[p] # NoProfile
                            THEN asString(property(pv, par, par[p], "Path"))
                            ELSE old.parent,
                command |-> IF isPropertySet(pv, p, "Command") \/ isPropertySet(pv, p, "Arguments")
                            THEN fullCommand(asString(property(pv, par, p, "Command")),
                                             asString(property(pv, par, p, "Arguments")))
                            ELSE old.command,
                values  |-> writeProperties(pv, par, p, old.values),
                writable |-> TRUE]
    IN  IF ~isWritable(fs, path) THEN fs
        ELSE [f \in DOMAIN fs \cup {path} |-> IF f = path THEN new ELSE fs[f]]

-----------------------------------------------------------------------------
(* SessionManager *)

\* the object SessionManager::_fallbackProfile points to
Fallback == 1

\* FallbackProfile::FallbackProfile
FallbackProperties ==
    [x \in {"Name", "Path", "Command", "Icon", "Arguments", "Environment",
            "LocalTabTitleFormat", "RemoteTabTitleFormat", "TabBarMode",
            "TabBarPosition", "NewTabBehavior", "ShowMenuBar", "ShowTerminalSizeHint",
            "SaveGeometryOnExit", "StartInCurrentSessionDir", "ShowNewAndCloseTabButtons",
            "MenuIndex", "SilenceSeconds", "KeyBindings", "ColorScheme", "Font",
            "HistoryMode", "HistorySize", "ScrollBarPosition", "FlowControlEnabled",
            "AllowProgramsToResizeWindow", "BlinkingTextEnabled", "UnderlineLinksEnabled",
            "TripleClickMode", "BlinkingCursorEnabled", "BidiRenderingEnabled",
            "CJKAmbiguousWide", "CursorShape", "UseCustomCursorColor", "CustomCursorColor",
            "DefaultEncoding", "AntiAliasFonts", "BoldIntense", "WordCharacters"} |->
        CASE x = "Name" -> "Shell"
          [] x = "Path" -> FallbackPath
          [] x = "Command" -> "/bin/sh"
          [] x = "Icon" -> "utilities-terminal"
          [] x = "Arguments" -> "/bin/sh"
          [] x = "Environment" -> "TERM=xterm"
          [] x = "LocalTabTitleFormat" -> "%D : %n"
          [] x = "RemoteTabTitleFormat" -> "(%u) %H"
          [] x = "TabBarMode" -> "2"
          [] x = "TabBarPosition" -> "0"
          [] x = "NewTabBehavior" -> "0"
          [] x = "MenuIndex" -> "0"
          [] x = "SilenceSeconds" -> "10"
          [] x = "KeyBindings" -> "default"
          [] x = "ColorScheme" -> "Linux"
          [] x = "Font" -> "fixed"
          [] x = "HistoryMode" -> "1"
          [] x = "HistorySize" -> "1000"
          [] x = "ScrollBarPosition" -> "1"
          [] x = "TripleClickMode" -> "0"
          [] x = "CursorShape" -> "0"
          [] x = "CustomCursorColor" -> "black"
          [] x = "DefaultEncoding" -> "UTF-8"
          [] x = "WordCharacters" -> ":@-./_~?&=%+#"
          [] x \in {"ShowMenuBar", "ShowTerminalSizeHint", "SaveGeometryOnExit",
                    "StartInCurrentSessionDir", "FlowControlEnabled",
                    "AllowProgramsToResizeWindow", "BlinkingTextEnabled",
                    "UnderlineLinksEnabled", "AntiAliasFonts", "BoldIntense"} -> "true"
          [] OTHER -> "false"]

\* The manager's data while one of its methods runs: the profile objects
\* (pv, par, hid, gp), the disk (fs), _profiles, _defaultProfile,
\* recursionGuard, and what the method did: ret, the value returned; reads,
\* the paths handed to the reader; writes, the profiles handed to the
\* writer; emitted, the profiles profileChanged was emitted for.
Running ==
    [pv |-> propertyValues, par |-> parent, hid |-> hidden, gp |-> groupProfiles,
     fs |-> files, profiles |-> profiles, defaultProfile |-> defaultProfile,
     guard |-> recursionGuard,
     sessions |-> sessions, sessionProfiles |-> sessionProfiles,
     runtime |-> sessionRuntimeProfiles, settings |-> sessionSettings,
     favorites |-> favorites, loadedFavorites |-> loadedFavorites,
     shortcuts |-> shortcuts, rc |-> konsolerc, favoriteReads |-> favoriteReads,
     config |-> sessionConfig,
     loadCalls |-> <<>>, depth |-> 1, maxDepth |-> 1,
     ret |-> NoProfile, reads |-> <<>>, writes |-> <<>>, emitted |-> <<>>,
     failures |-> <<>>, asserted |-> <<>>,
     applied |-> <<>>]

\* the state a method leaves
Leaves(st) ==
    /\ propertyValues' = st.pv
    /\ parent' = st.par
    /\ hidden' = st.hid
    /\ groupProfiles' = st.gp
    /\ files' = st.fs
    /\ profiles' = st.profiles
    /\ defaultProfile' = st.defaultProfile
    /\ recursionGuard' = st.guard
    /\ sessions' = st.sessions
    /\ sessionProfiles' = st.sessionProfiles
    /\ sessionRuntimeProfiles' = st.runtime
    /\ sessionSettings' = st.settings
    /\ favorites' = st.favorites
    /\ loadedFavorites' = st.loadedFavorites
    /\ shortcuts' = st.shortcuts
    /\ konsolerc' = st.rc
    /\ favoriteReads' = st.favoriteReads
    /\ sessionConfig' = st.config

\* Profile::path() and Profile::name() of p in st
pathOf(st, p) == asString(property(st.pv, st.par, p, "Path"))
nameOf(st, p) == asString(property(st.pv, st.par, p, "Name"))

\* an addProfile that leaves _defaultProfile alone
addProfile_NoDefault(st, p) == [st EXCEPT !.profiles = @ \cup {p}]

\* SessionManager::addProfile
addProfile(st, p) ==
    [st EXCEPT !.defaultProfile = IF st.profiles = {} THEN p ELSE @,
               !.profiles = @ \cup {p}]

\* the identity of the next object constructed
newObject(st) == Cardinality(DOMAIN st.pv) + 1

\* a profile whose parent() is the profile itself
newProfile_OwnParent(st, parentPtr) ==
    LET p == newObject(st)
    IN  [st EXCEPT !.pv = [x \in DOMAIN st.pv \cup {p} |-> IF x = p THEN EmptyProfile ELSE st.pv[x]],
                   !.par = [x \in DOMAIN st.par \cup {p} |-> IF x = p THEN p ELSE st.par[x]],
                   !.hid = [x \in DOMAIN st.hid \cup {p} |-> IF x = p THEN FALSE ELSE st.hid[x]]]

\* new Profile(parent): the next object, with no property set
newProfile(st, parentPtr) ==
    LET p == newObject(st)
    IN  [st EXCEPT !.pv = [x \in DOMAIN st.pv \cup {p} |-> IF x = p THEN EmptyProfile ELSE st.pv[x]],
                   !.par = [x \in DOMAIN st.par \cup {p} |-> IF x = p THEN parentPtr ELSE st.par[x]],
                   !.hid = [x \in DOMAIN st.hid \cup {p} |-> IF x = p THEN FALSE ELSE st.hid[x]]]

\* a guard that takes every path to be on the stack
stackContains_Always(stack, x) == TRUE

\* a guard that lets a path be pushed a second time
stackContains_Twice(stack, x) ==
    \E i, j \in DOMAIN stack : i # j /\ stack[i] = x /\ stack[j] = x

\* QStack::contains
stackContains(stack, x) == \E i \in DOMAIN stack : stack[i] = x

\* a guard object that pops nothing
popStackOnExit_Never(stack, count) == stack

\* ~PopStackOnExit: pops the stack back to the size it had when the guard
\* object was constructed
popStackOnExit(stack, count) ==
    IF Len(stack) > count THEN SubSeq(stack, 1, count) ELSE stack

\* the path SessionManager::loadProfile looks for, lines 114-129
resolvedPath(fs, shortPath) ==
    LET suffixed == IF fileSuffix(shortPath) # "profile"
                    THEN shortPath \o ".profile" ELSE shortPath
        prefixed == IF filePath(shortPath) = "" \/ filePath(shortPath) = "."
                    THEN "konsole/" \o suffixed ELSE suffixed
    IN  IF ~isAbsolute(shortPath) THEN locate(fs, prefixed) ELSE prefixed

RECURSIVE loadProfile(_, _)
\* SessionManager::loadProfile(shortPath) called in st: the states it may
\* return in (the order in which QSet iterates _profiles is not determined)
loadProfile(st, shortPath) ==
    IF shortPath = pathOf(st, Fallback) THEN {[st EXCEPT !.ret = Fallback]}
    ELSE IF isDir(shortPath) THEN {[st EXCEPT !.ret = NoProfile]}
    ELSE
    LET path == resolvedPath(st.fs, shortPath)
        loaded == {p \in st.profiles : pathOf(st, p) = path}
        count == Len(st.guard)
    IN
    IF loaded # {} THEN {[st EXCEPT !.ret = p] : p \in loaded}
    ELSE IF stackContains(st.guard, path)
    THEN {[st EXCEPT !.ret = Fallback, !.guard = popStackOnExit(@, count)]}
    ELSE IF endsWith(path, ".desktop")
    THEN {[st EXCEPT !.ret = NoProfile,
                     !.guard = popStackOnExit(Append(@, path), count)]}
    ELSE
    LET pushed == [st EXCEPT !.guard = Append(@, path)]
        new == newObject(pushed)
        created == newProfile(pushed, Fallback)
        read == readProfile(created.fs, setProperty(created.pv, new, "Path", path), path, new)
        afterRead == [created EXCEPT !.pv = read.pv, !.reads = Append(@, path)]
        afterParent ==
            IF read.parentProfile # ""
            THEN {[o EXCEPT !.par = [o.par EXCEPT ![new] = o.ret],
                            !.depth = afterRead.depth] :
                      o \in loadProfile([afterRead EXCEPT
                                            !.depth = @ + 1,
                                            !.maxDepth = IF afterRead.depth + 1 > @
                                                         THEN afterRead.depth + 1 ELSE @],
                                        read.parentProfile)}
            ELSE {afterRead}
    IN  IF ~read.result
        \* the only pointer to the new Profile goes out of scope
        THEN {[st EXCEPT !.ret = NoProfile, !.reads = Append(@, path)]}
        ELSE {[addProfile(o, new) EXCEPT !.ret = new,
                                         !.guard = popStackOnExit(@, count)] :
                  o \in afterParent}

\* ShouldApplyProperty::shouldApply: with modifiedPropertiesOnly, only the
\* properties set in the profile itself
shouldApply(pv, profile, modifiedPropertiesOnly, prop) ==
    ~modifiedPropertiesOnly \/ isPropertySet(pv, profile, prop)

\* the history type applyProfile(Session*, ...) selects: by HistoryMode,
\* the null value converted to int being 0; no setter call for a mode
\* outside the enumeration
historyType(pv, par, profile) ==
    LET mode == property(pv, par, profile, "HistoryMode")
    IN  IF mode \in {Null, "", "0"} THEN "HistoryTypeNone"
        ELSE IF mode = "1"
        THEN "CompactHistoryType " \o asString(property(pv, par, profile, "HistorySize"))
        ELSE IF mode = "2" THEN "HistoryTypeFile"
        ELSE Null

\* the setters of Session that applyProfile(Session*, ...) calls, each with
\* the properties whose shouldApply guards the call
SessionSetters ==
    [setTitle |-> {"Name"}, setProgram |-> {"Command"}, setArguments |-> {"Arguments"},
     setInitialWorkingDirectory |-> {"Directory"}, setEnvironment |-> {"Environment"},
     setIconName |-> {"Icon"}, setKeyBindings |-> {"KeyBindings"},
     setLocalTabTitleFormat |-> {"LocalTabTitleFormat"},
     setRemoteTabTitleFormat |-> {"RemoteTabTitleFormat"},
     setHistoryType |-> {"HistoryMode", "HistorySize"},
     setFlowControlEnabled |-> {"FlowControlEnabled"},
     setCodec |-> {"DefaultEncoding"},
     setMonitorSilenceSeconds |-> {"SilenceSeconds"},
     setCJKAmbiguousWide |-> {"CJKAmbiguousWide"}]

\* what applyProfile(Session*, ...) hands to a setter of the session
setterArgument(pv, par, profile, setter) ==
    CASE setter = "setEnvironment" ->
             LET environment == asString(property(pv, par, profile, "Environment"))
                 home == "PROFILEHOME=" \o asString(property(pv, par, profile, "Directory"))
             IN  IF environment = "" THEN home ELSE environment \o " " \o home
      [] setter = "setHistoryType" -> historyType(pv, par, profile)
      [] OTHER -> asString(property(pv, par, profile,
                                    CHOOSE x \in SessionSetters[setter] : TRUE))

\* the setters applyProfile(Session*, profile, modifiedPropertiesOnly) calls
calledSetters(pv, par, profile, modifiedPropertiesOnly) ==
    {setter \in DOMAIN SessionSetters :
        /\ \E x \in SessionSetters[setter] : shouldApply(pv, profile, modifiedPropertiesOnly, x)
        /\ setterArgument(pv, par, profile, setter) # Null}

\* SessionManager::applyProfile(Session*, profile, modifiedPropertiesOnly)
applyProfileToSession(st, session, profile, modifiedPropertiesOnly) ==
    LET called == calledSetters(st.pv, st.par, profile, modifiedPropertiesOnly)
    IN  [st EXCEPT
            !.sessionProfiles = [x \in DOMAIN @ \cup {session} |->
                                    IF x = session THEN profile ELSE @[x]],
            !.settings = [x \in DOMAIN @ \cup {session} |->
                IF x # session THEN @[x]
                ELSE LET old == IF session \in DOMAIN st.settings
                                THEN st.settings[session] ELSE <<>>
                     IN  [k \in DOMAIN old \cup called |->
                             IF k \in called
                             THEN setterArgument(st.pv, st.par, profile, k)
                             ELSE old[k]]],
            !.applied = Append(@, [session |-> session, setters |-> called])]

RECURSIVE applyProfile_AllSessions(_, _, _, _)
\* a loop that applies profile to every session, whatever it is bound to
applyProfile_AllSessions(st, profile, modifiedPropertiesOnly, i) ==
    IF i > Len(st.sessions) THEN st
    ELSE applyProfile_AllSessions(applyProfileToSession(st, st.sessions[i], profile,
                                                        modifiedPropertiesOnly),
                                  profile, modifiedPropertiesOnly, i + 1)

\* SessionManager::applyProfile(profile, modifiedPropertiesOnly), from
\* session i of _sessions on
RECURSIVE applyProfile(_, _, _, _)
applyProfile(st, profile, modifiedPropertiesOnly, i) ==
    IF i > Len(st.sessions) THEN st
    ELSE applyProfile(IF st.sessionProfiles[st.sessions[i]] = profile
                      THEN applyProfileToSession(st, st.sessions[i], profile,
                                                 modifiedPropertiesOnly)
                      ELSE st,
                      profile, modifiedPropertiesOnly, i + 1)

\* new Session(): the next Session object
newSession(st) == Len(st.sessions) + 1

\* SessionManager::createSession(profile); sessions are not terminated in
\* the model, so the new Session is the next number
createSession(st, profile) ==
    LET bound == IF profile = NoProfile THEN st.defaultProfile ELSE profile
        added == IF bound \notin st.profiles THEN addProfile(st, bound) ELSE st
        session == newSession(st)
        applied == applyProfileToSession(added, session, bound, FALSE)
    IN  [applied EXCEPT !.sessions = Append(@, session)]

\* SessionManager::setSessionProfile(session, profile), updateSession included
setSessionProfile(st, session, profile) ==
    LET bound == [st EXCEPT !.sessionProfiles = [@ EXCEPT ![session] = profile]]
    IN  applyProfileToSession(bound, session,
                              IF profile = NoProfile THEN st.defaultProfile ELSE profile,
                              FALSE)

\* the while loop of sessionProfileCommandReceived: every entry of changes
\* is set in newProfile
RECURSIVE setEach(_, _, _, _)
setEach(pv, p, propertyMap, keys) ==
    IF keys = {} THEN pv
    ELSE LET k == CHOOSE k \in keys : TRUE
         IN  setEach(setProperty(pv, p, k, propertyMap[k]), p, propertyMap, keys \ {k})

\* a handler that makes a new Profile at every command
sessionProfileCommandReceived_AlwaysNew(st, session, text) ==
    LET parsed == parse(text)
        made == [newProfile(st, st.sessionProfiles[session]) EXCEPT
                    !.runtime = [x \in DOMAIN @ \cup {session} |->
                                    IF x = session THEN newObject(st) ELSE @[x]]]
        overlay == made.runtime[session]
        set == [made EXCEPT !.pv = setEach(@, overlay, parsed, DOMAIN parsed)]
        bound == [set EXCEPT !.sessionProfiles = [@ EXCEPT ![session] = overlay]]
    IN  applyProfile(bound, overlay, TRUE, 1)

\* SessionManager::sessionProfileCommandReceived(text), session the sender
sessionProfileCommandReceived(st, session, text) ==
    LET parsed == parse(text)
        made == IF session \notin DOMAIN st.runtime
                THEN [newProfile(st, st.sessionProfiles[session]) EXCEPT
                         !.runtime = [x \in DOMAIN @ \cup {session} |->
                                         IF x = session THEN newObject(st) ELSE @[x]]]
                ELSE st
        overlay == made.runtime[session]
        set == [made EXCEPT !.pv = setEach(@, overlay, parsed, DOMAIN parsed)]
        bound == [set EXCEPT !.sessionProfiles = [@ EXCEPT ![session] = overlay]]
    IN  applyProfile(bound, overlay, TRUE, 1)

\* QHash::keys() walked by changeProfile: every entry of propertyMap is set
\* on p through the virtual Profile::setProperty
RECURSIVE setAll(_, _, _, _, _)
setAll(pv, gp, p, propertyMap, keys) ==
    IF keys = {} THEN pv
    ELSE LET k == CHOOSE k \in keys : TRUE
         IN  setAll(virtualSetProperty(pv, gp, p, k, propertyMap[k]),
                    gp, p, propertyMap, keys \ {k})

\* SessionManager::saveProfile followed by setProperty(Path, newPath),
\* SessionManager.cpp:443
saveProfile(st, p) ==
    LET newPath == getPath(st.pv, st.par, p)
    IN  [st EXCEPT !.fs = writeProfile(st.fs, st.pv, st.par, newPath, p),
                   !.writes = Append(@, p),
                   !.pv = setProperty(st.pv, p, "Path", newPath)]

\* a caller that saves a profile whatever its name
stillPersistent_AnyName(st, p, persistent) == persistent

\* persistent = persistent && !profile->name().isEmpty()
stillPersistent(st, p, persistent) == persistent /\ nameOf(st, p) # ""

RECURSIVE changeProfile(_, _, _, _)
RECURSIVE changeMembers(_, _, _, _, _)
\* SessionManager::changeProfile
changeProfile(st, p, propertyMap, persistent) ==
    LET changed == [st EXCEPT !.pv = setAll(st.pv, st.gp, p, propertyMap, DOMAIN propertyMap)]
        pers == stillPersistent(changed, p, persistent)
        notified == [applyProfile(changed, p, TRUE, 1) EXCEPT !.emitted = Append(@, p)]
    IN  IF p \in DOMAIN st.gp
        THEN changeMembers(changed, st.gp[p], 1, propertyMap, pers)
        ELSE IF pers /\ ~st.hid[p] THEN saveProfile(notified, p)
        ELSE notified

\* a loop that stops after the first member of the group
changeMembers_FirstOnly(st, members, i, propertyMap, persistent) ==
    IF i > 1 \/ i > Len(members) THEN st
    ELSE changeProfile(st, members[i], propertyMap, persistent)

\* foreach(profile, group->profiles()) changeProfile(profile, propertyMap, persistent)
changeMembers(st, members, i, propertyMap, persistent) ==
    IF i > Len(members) THEN st
    ELSE changeMembers(changeProfile(st, members[i], propertyMap, persistent),
                       members, i + 1, propertyMap, persistent)

\* new ProfileGroup; addProfile(m) for each m of members; updateValues()
newProfileGroup(st, members) ==
    LET g == newObject(st)
        made == [newProfile(st, NoProfile) EXCEPT
                    !.hid = [@ EXCEPT ![g] = TRUE],
                    !.gp = [x \in DOMAIN st.gp \cup {g} |->
                               IF x = g THEN members ELSE st.gp[x]]]
    IN  [made EXCEPT !.pv = updateValues(made.pv, made.par, made.gp, g)]

-----------------------------------------------------------------------------
(* The SessionManager specification: the manager is constructed over a     *)
(* disk, then profiles are loaded, grouped and changed.                    *)

PathA == "/usr/konsole/A.profile"
PathB == "/usr/konsole/B.profile"
PathShell == "/usr/konsole/Shell.profile"

\* a profile file with a Name key and, unless parentRef is Null, a Parent key
File(parentRef, name) ==
    [parent |-> parentRef, command |-> Null, values |-> [k \in {"Name"} |-> name],
     writable |-> TRUE]

\* what the Parent key of A.profile, B.profile and Shell.profile may say
ParentsOfA == {Null, "B.profile", "A", "C.profile"}
ParentsOfB == {Null, PathA}
ParentsOfShell == {Null, "A.profile"}

\* the disks the manager is constructed over: A.profile and B.profile in
\* the system directory, Shell.profile there or nowhere
Disks ==
    {[f \in {PathA, PathB} |-> IF f = PathA THEN File(pa, "A") ELSE File(pb, "B")] :
         pa \in ParentsOfA, pb \in ParentsOfB}
    \cup
    {[f \in {PathA, PathB, PathShell} |->
         IF f = PathA THEN File(pa, "A")
         ELSE IF f = PathB THEN File(pb, "B") ELSE File(ps, "Shell")] :
         pa \in ParentsOfA, pb \in ParentsOfB, ps \in ParentsOfShell}

\* the paths loadProfile is called with
ShortPaths == {"A", "B.profile", PathA, PathShell, FallbackPath, "/usr/konsole", "C"}

\* the property maps changeProfile is called with
PropertyMaps ==
    {[k \in {"Icon"} |-> "a"], [k \in {"Name"} |-> "N"], [k \in {"Name"} |-> ""]}

\* konsolerc as it is before anything was written to it
NoSettings == [DefaultProfile |-> Null, hasFavorites |-> FALSE, Favorites |-> {},
               Shortcuts |-> <<>>]

\* ShortcutData
ShortcutData(profilePath) == [profileKey |-> NoProfile, profilePath |-> profilePath]

\* SessionManager::loadShortcuts
loadShortcuts(st) ==
    [st EXCEPT !.shortcuts = [k \in DOMAIN st.rc.Shortcuts |->
                                  ShortcutData(st.rc.Shortcuts[k])]]

\* SessionManager::SessionManager over disk and the settings rc: the states
\* it may leave
constructedFrom(disk, rc) ==
    LET st0 == [pv |-> [p \in {Fallback} |-> FallbackProperties],
                par |-> [p \in {Fallback} |-> NoProfile],
                hid |-> [p \in {Fallback} |-> TRUE],
                gp |-> <<>>, fs |-> disk, profiles |-> {},
                defaultProfile |-> NoProfile, guard |-> <<>>,
                sessions |-> <<>>, sessionProfiles |-> <<>>,
                runtime |-> <<>>, settings |-> <<>>,
                favorites |-> {}, loadedFavorites |-> FALSE, shortcuts |-> <<>>,
                rc |-> rc, favoriteReads |-> 0, config |-> <<>>,
                loadCalls |-> <<>>, depth |-> 1, maxDepth |-> 1,
                ret |-> NoProfile, reads |-> <<>>, writes |-> <<>>, emitted |-> <<>>,
     failures |-> <<>>, asserted |-> <<>>,
                applied |-> <<>>]
        st1 == addProfile(st0, Fallback)
        defaultSessionFilename ==
            IF rc.DefaultProfile = Null THEN "Shell.profile" ELSE rc.DefaultProfile
        path == locate(disk, "konsole/" \o defaultSessionFilename)
    IN  IF path # ""
        THEN {loadShortcuts([o EXCEPT !.defaultProfile =
                                          IF o.ret # NoProfile THEN o.ret ELSE @]) :
                  o \in loadProfile(st1, path)}
        ELSE {loadShortcuts(st1)}

\* SessionManager::SessionManager over disk, konsolerc never written
constructed(disk) == constructedFrom(disk, NoSettings)

\* firstLoad after a call that took _profiles from before to st.profiles
firstLoads(old, before, st) ==
    LET new == st.profiles \ before
        paths == {pathOf(st, o) : o \in new}
    IN  [path \in DOMAIN old \cup paths |->
            IF path \in DOMAIN old THEN old[path]
            ELSE CHOOSE o \in new : pathOf(st, o) = path]

InitManager ==
    \E disk \in Disks : \E st \in constructed(disk) :
        /\ propertyValues = st.pv
        /\ parent = st.par
        /\ hidden = st.hid
        /\ groupProfiles = st.gp
        /\ files = st.fs
        /\ profiles = st.profiles
        /\ defaultProfile = st.defaultProfile
        /\ recursionGuard = st.guard
        /\ sessions = st.sessions
        /\ sessionProfiles = st.sessionProfiles
        /\ sessionRuntimeProfiles = st.runtime
        /\ sessionSettings = st.settings
        /\ favorites = st.favorites
        /\ loadedFavorites = st.loadedFavorites
        /\ shortcuts = st.shortcuts
        /\ konsolerc = st.rc
        /\ favoriteReads = st.favoriteReads
        /\ sessionConfig = st.config
        /\ firstLoad = firstLoads(<<>>, {Fallback}, st)
        /\ input = <<>>
        /\ changes = <<>>
        /\ last = NoOp
        /\ ops = 0

\* SessionManager::loadProfile(shortPath)
LoadProfile(shortPath) ==
    /\ ops < MaxManagerOps
    /\ \E st \in loadProfile(Running, shortPath) :
           /\ Leaves(st)
           /\ firstLoad' = firstLoads(firstLoad, profiles, st)
           /\ last' = [op |-> "loadProfile", shortPath |-> shortPath,
                       ret |-> st.ret, reads |-> st.reads, maxDepth |-> st.maxDepth]
    /\ ops' = ops + 1
    /\ UNCHANGED parserVars

\* SessionManager::changeProfile(p, propertyMap, persistent)
ChangeProfile(p, propertyMap, persistent) ==
    /\ ops < MaxManagerOps
    /\ LET st == changeProfile(Running, p, propertyMap, persistent)
       IN  /\ Leaves(st)
           /\ last' = [op |-> "changeProfile", profile |-> p, propertyMap |-> propertyMap,
                       persistent |-> persistent, writes |-> st.writes,
                       emitted |-> st.emitted, applied |-> st.applied,
                       failures |-> st.failures]
    /\ ops' = ops + 1
    /\ UNCHANGED <<parserVars, firstLoad>>

\* a ProfileGroup is made of the loaded profiles in members
NewProfileGroup(members) ==
    /\ ops < MaxManagerOps
    /\ DOMAIN groupProfiles = {}
    /\ Leaves(newProfileGroup(Running, members))
    /\ last' = [op |-> "newProfileGroup", group |-> newObject(Running)]
    /\ ops' = ops + 1
    /\ UNCHANGED <<parserVars, firstLoad>>

\* the sequences of one or two loaded profiles
Selections ==
    {<<p>> : p \in profiles} \cup {<<p, q>> : p \in profiles, q \in profiles}

NextManager ==
    \/ \E shortPath \in ShortPaths : LoadProfile(shortPath)
    \/ \E p \in profiles \cup DOMAIN groupProfiles, propertyMap \in PropertyMaps,
          persistent \in BOOLEAN : ChangeProfile(p, propertyMap, persistent)
    \/ \E members \in Selections : NewProfileGroup(members)

SpecManager == InitManager /\ [][NextManager]_vars

-----------------------------------------------------------------------------
(* Claims about SessionManager *)

\* on disk, the file at a names the file at b as its parent and the file at
\* b names the file at a
NameEachOther(fs, a, b) ==
    /\ a \in DOMAIN fs /\ b \in DOMAIN fs /\ a # b
    /\ resolvedPath(fs, asString(fs[a].parent)) = b
    /\ resolvedPath(fs, asString(fs[b].parent)) = a

\* the step is a call loadProfile(A) made while A.profile and B.profile name
\* each other as parent and no loaded profile has the path of either
LoadsCycle ==
    /\ last'.op = "loadProfile"
    /\ last'.shortPath # pathOf(Running, Fallback)
    /\ resolvedPath(files, last'.shortPath) = PathA
    /\ NameEachOther(files, PathA, PathB)
    /\ \A p \in profiles : pathOf(Running, p) \notin {PathA, PathB}

\* C3, as stated: when profile file A names B as its parent and B names A,
\* the call loadProfile(A) returns the fallback profile.
C3_CycleLoadReturnsFallback ==
    [][LoadsCycle => last'.ret = Fallback]_vars

\* C3, amended: when profile file A names B as its parent and B names A and
\* neither is loaded, the call loadProfile(A) terminates and returns a new
\* profile read from A, which is neither null nor the fallback profile; its
\* parent is the profile read from B, and the fallback profile takes the
\* place of B's parent, where the cycle closes.  The stack of paths being
\* loaded is empty again.
C3_CycleLoadReturnsProfile ==
    [][LoadsCycle =>
          LET a == last'.ret
              b == parent'[a]
          IN  /\ a \notin {NoProfile, Fallback}
              /\ a \in profiles' \ profiles
              /\ asString(property(propertyValues', parent', a, "Path")) = PathA
              /\ b \in profiles' \ profiles
              /\ asString(property(propertyValues', parent', b, "Path")) = PathB
              /\ parent'[b] = Fallback
              /\ last'.reads = <<PathA, PathB>>
              /\ recursionGuard' = <<>>]_vars

C3_Witness ==
    /\ last.op = "loadProfile"
    /\ last.reads = <<PathA, PathB>>
    /\ NameEachOther(files, PathA, PathB)
    /\ last.ret \in profiles \ {Fallback}
    /\ parent[parent[last.ret]] = Fallback

\* C4: a loadProfile call for a resolved path that was already loaded
\* successfully returns the instance the first load produced, does not
\* invoke the reader and adds no entry to the set of loaded profiles.
C4_LoadedAtMostOncePerPath ==
    [][(/\ last'.op = "loadProfile"
        /\ resolvedPath(files, last'.shortPath) \in DOMAIN firstLoad)
       => /\ last'.ret = firstLoad[resolvedPath(files, last'.shortPath)]
          /\ last'.reads = <<>>
          /\ profiles' = profiles]_vars

\* C5: after changeProfile(G, changes, persistent = true) on a ProfileGroup
\* G, every member of G that is not hidden and has a non-empty Name was
\* handed to the writer and its Path lies in the save location.
C5_GroupChangeWritesEveryMember ==
    (/\ last.op = "changeProfile"
     /\ last.profile \in DOMAIN groupProfiles
     /\ last.persistent
     /\ DistinctMembers(last.profile))
    => \A i \in DOMAIN groupProfiles[last.profile] :
           LET m == groupProfiles[last.profile][i]
           IN  (~hidden[m] /\ ~IsEmpty(Prop(m, "Name")))
               => /\ \E j \in DOMAIN last.writes : last.writes[j] = m
                  /\ startsWith(asString(Prop(m, "Path")), SaveLocation)

\* C10: changeProfile(G, changes, persistent) on a ProfileGroup G of more
\* than one member, with Name or Path among the changes, leaves the Name
\* and the Path of every member as they were.
C10_GroupChangeKeepsNameAndPath ==
    [][(/\ last'.op = "changeProfile"
        /\ last'.profile \in DOMAIN groupProfiles
        /\ Len(groupProfiles[last'.profile]) > 1
        /\ DistinctMembers(last'.profile)
        /\ DOMAIN last'.propertyMap \cap {"Name", "Path"} # {})
       => \A i \in DOMAIN groupProfiles[last'.profile] :
              LET m == groupProfiles[last'.profile][i]
              IN  /\ property(propertyValues', parent', m, "Name") = Prop(m, "Name")
                  /\ property(propertyValues', parent', m, "Path") = Prop(m, "Path")]_vars

-----------------------------------------------------------------------------
(* Profile::clone on its own: three profiles with Name and Icon set or     *)
(* not, the first with the second or the third as parent or none, the      *)
(* second with the third or none.                                          *)

\* the stores a profile may have when clone is called
ClonedStores ==
    {Restrict([Name |-> "a", Icon |-> icon], keys) :
         icon \in Values, keys \in SUBSET {"Name", "Icon"}}

InitClone ==
    /\ \E s1 \in ClonedStores, s2 \in ClonedStores, s3 \in ClonedStores :
           propertyValues = <<s1, s2, s3>>
    /\ \E p1 \in {NoProfile, 2, 3}, p2 \in {NoProfile, 3} : parent = <<p1, p2, NoProfile>>
    /\ hidden = <<FALSE, FALSE, FALSE>>
    /\ groupProfiles = <<>>
    /\ last = NoOp
    /\ ops = 0
    /\ Idle

NextClone ==
    \E target \in Objects, source \in Objects, differentOnly \in BOOLEAN :
        ProfileClone(target, source, differentOnly)

SpecClone == InitClone /\ [][NextClone]_vars

\* C13: target.clone(source, differentOnly), for either value of
\* differentOnly and whatever the parents are, leaves what target stores for
\* Name and Path as it was, and afterwards target.property(X) equals
\* source.property(X) for every other property X.
C13_CloneEqualizesAllButNameAndPath ==
    [][last'.op = "clone" =>
          LET t == last'.target
              s == last'.source
          IN  /\ \A x \in {"Name", "Path"} :
                     /\ isPropertySet(propertyValues', t, x) <=> isPropertySet(propertyValues, t, x)
                     /\ isPropertySet(propertyValues, t, x)
                            => propertyValues'[t][x] = propertyValues[t][x]
              /\ \A x \in Property \ {"Name", "Path"} :
                     property(propertyValues', parent', t, x)
                         = property(propertyValues', parent', s, x)]_vars

C13_Witness ==
    /\ last.op = "clone"
    /\ last.differentOnly
    /\ last.target # last.source
    /\ parent[last.source] \notin {NoProfile, last.target}
    /\ ~isPropertySet(propertyValues, last.source, "Icon")
    /\ Prop(last.source, "Icon") # Null
    /\ Prop(last.target, "Icon") = Prop(last.source, "Icon")
    /\ isPropertySet(propertyValues, last.target, "Name")
    /\ Prop(last.target, "Name") # Prop(last.source, "Name")

-----------------------------------------------------------------------------
(* The writer and the reader on their own: a profile P, with or without    *)
(* the parent Q, and Q itself are written to one path, and the path is     *)
(* read back into a profile that was just constructed.                     *)

Q == 1
P == 2
R == 3

\* the path the profiles are written to
TargetPath == "/home/konsole/P.profile"

\* what P and Q may have set when the writer is called
SetInP ==
    [Name |-> "P", Icon |-> "p", Command |-> "zsh", Arguments |-> "-l",
     Title |-> "t", Path |-> "/tmp/P.profile"]
SetInQ == [Icon |-> "q", Command |-> "sh", Arguments |-> "-q"]

InitWriter ==
    /\ \E inP \in SUBSET DOMAIN SetInP, inQ \in SUBSET DOMAIN SetInQ :
           propertyValues = <<Restrict(SetInQ, inQ), Restrict(SetInP, inP), EmptyProfile>>
    /\ \E q \in {Q, NoProfile} : parent = <<NoProfile, q, NoProfile>>
    /\ hidden = <<FALSE, FALSE, FALSE>>
    /\ groupProfiles = <<>>
    /\ last = NoOp
    /\ ops = 0
    /\ Idle

\* KDE4ProfileWriter::writeProfile(TargetPath, p)
WriteProfile(p) ==
    /\ ops < MaxOps
    /\ files' = writeProfile(files, propertyValues, parent, TargetPath, p)
    /\ last' = [op |-> "writeProfile", profile |-> p,
                fresh |-> ~fileExists(files, TargetPath)]
    /\ ops' = ops + 1
    /\ UNCHANGED <<profileVars, parserVars, profiles, defaultProfile,
                   recursionGuard, firstLoad, sessionVars, settingsVars>>

\* KDE4ProfileReader::readProfile(TargetPath, R, parentProfile), R just
\* constructed.  written is the profile whose writing was the step before,
\* fresh tells that the path held no file before that writing.
ReadProfile ==
    /\ ops < MaxOps
    /\ LET read == readProfile(files, [propertyValues EXCEPT ![R] = EmptyProfile],
                               TargetPath, R)
       IN  /\ propertyValues' = read.pv
           /\ last' = [op |-> "readProfile", result |-> read.result,
                       parentProfile |-> read.parentProfile,
                       written |-> IF last.op = "writeProfile" THEN last.profile
                                   ELSE NoProfile,
                       fresh |-> last.op = "writeProfile" /\ last.fresh]
    /\ ops' = ops + 1
    /\ UNCHANGED <<parent, hidden, groupProfiles, parserVars, managerVars>>

NextWriter ==
    \/ \E p \in {P, Q} : WriteProfile(p)
    \/ ReadProfile

SpecWriter == InitWriter /\ [][NextWriter]_vars

\* the keys writeProfile(path, p) leaves in the file, the Parent key apart
writtenKeys(fs, pv, par, path, p) ==
    [command |-> writeProfile(fs, pv, par, path, p)[path].command,
     values |-> writeProfile(fs, pv, par, path, p)[path].values]

\* C11: every key writeProfile writes for P, the merged Command key
\* included, is derived from the properties set in P itself: the keys are
\* those that would be written if P had no parent to inherit from.
C11_WriterSerializesLocalValuesOnly ==
    [][last'.op = "writeProfile" =>
          LET p == last'.profile
          IN  [command |-> files'[TargetPath].command,
               values |-> files'[TargetPath].values]
              = writtenKeys(files, propertyValues,
                            [parent EXCEPT ![p] = NoProfile], TargetPath, p)]_vars

\* the properties that have a row with a persistence group
Grouped == {DefaultPropertyNames[i].property : i \in GroupedRows}

\* R has the grouped properties that w has set, with equal values
SameGroupedProperties(w) ==
    \A x \in Grouped :
        /\ isPropertySet(propertyValues, R, x) <=> isPropertySet(propertyValues, w, x)
        /\ isPropertySet(propertyValues, w, x) => propertyValues[R][x] = propertyValues[w][x]

-----------------------------------------------------------------------------
(* The SessionManager with sessions: the manager is constructed over a     *)
(* disk with Shell.profile and A.profile, a first session is created for   *)
(* the default profile, and a caller holds a profile it has constructed    *)
(* and not saved.                                                          *)

\* a file of the user's directory that the user may not write
PathReadOnly == "/home/konsole/N.profile"

\* the disk: Shell.profile names A.profile as its parent, B.profile names
\* C.profile, which is in no data directory, and N.profile is read-only
SessionsDisk ==
    [f \in {PathA, PathB, PathShell, PathReadOnly} |->
        IF f = PathA THEN File(Null, "A")
        ELSE IF f = PathB THEN File("C.profile", "B")
        ELSE IF f = PathReadOnly THEN [File(Null, "N") EXCEPT !.writable = FALSE]
        ELSE File("A.profile", "Shell")]

\* the states after the manager was constructed, new Profile(fallbackProfile())
\* was called and createSession() was called for the default profile
started ==
    {createSession(newProfile(st, Fallback), NoProfile) : st \in constructed(SessionsDisk)}

\* the profile constructed by the caller: the object made after the loaded ones
Unsaved == 4

InitSessions ==
    \E st \in started :
        /\ propertyValues = st.pv
        /\ parent = st.par
        /\ hidden = st.hid
        /\ groupProfiles = st.gp
        /\ files = st.fs
        /\ profiles = st.profiles
        /\ defaultProfile = st.defaultProfile
        /\ recursionGuard = st.guard
        /\ sessions = st.sessions
        /\ sessionProfiles = st.sessionProfiles
        /\ sessionRuntimeProfiles = st.runtime
        /\ sessionSettings = st.settings
        /\ favorites = st.favorites
        /\ loadedFavorites = st.loadedFavorites
        /\ shortcuts = st.shortcuts
        /\ konsolerc = st.rc
        /\ favoriteReads = st.favoriteReads
        /\ sessionConfig = st.config
        /\ firstLoad = firstLoads(<<>>, {Fallback}, st)
        /\ input = <<>>
        /\ changes = <<>>
        /\ last = NoOp
        /\ ops = 0

\* SessionManager::createSession(profile)
CreateSession(profile) ==
    /\ ops < MaxManagerOps
    /\ LET st == createSession(Running, profile)
       IN  /\ Leaves(st)
           /\ last' = [op |-> "createSession", profile |-> profile,
                       session |-> newSession(Running), applied |-> st.applied]
    /\ ops' = ops + 1
    /\ UNCHANGED <<parserVars, firstLoad>>

\* SessionManager::sessionProfileCommandReceived(text), sent by session
SessionProfileCommandReceived(session, text) ==
    /\ ops < MaxManagerOps
    /\ LET st == sessionProfileCommandReceived(Running, session, text)
       IN  /\ Leaves(st)
           /\ last' = [op |-> "sessionProfileCommandReceived", session |-> session,
                       text |-> text, applied |-> st.applied]
    /\ ops' = ops + 1
    /\ UNCHANGED <<parserVars, firstLoad>>

\* SessionManager::setSessionProfile(session, profile)
SetSessionProfile(session, profile) ==
    /\ ops < MaxManagerOps
    /\ LET st == setSessionProfile(Running, session, profile)
       IN  /\ Leaves(st)
           /\ last' = [op |-> "setSessionProfile", session |-> session,
                       profile |-> profile, applied |-> st.applied]
    /\ ops' = ops + 1
    /\ UNCHANGED <<parserVars, firstLoad>>

\* the inline commands the sessions send
CommandTexts == {"Icon=x", "Directory=/tmp", "Name=x"}

\* the paths loadProfile is called with here: no file is found for C
SessionsShortPaths == {"C", "/usr/konsole/C.profile", "A", "B"}

\* the Session objects alive
Sessions == {sessions[i] : i \in DOMAIN sessions}

NextSessions ==
    \/ \E profile \in {NoProfile} \cup (Objects \ DOMAIN groupProfiles) :
           CreateSession(profile)
    \/ \E session \in Sessions, text \in CommandTexts :
           SessionProfileCommandReceived(session, text)
    \/ \E session \in Sessions, profile \in profiles :
           SetSessionProfile(session, profile)
    \/ \E p \in profiles \cup DOMAIN groupProfiles \cup {sessionProfiles[s] : s \in Sessions},
          propertyMap \in PropertyMaps, persistent \in BOOLEAN :
           ChangeProfile(p, propertyMap, persistent)
    \/ \E members \in Selections : NewProfileGroup(members)
    \/ \E shortPath \in SessionsShortPaths : LoadProfile(shortPath)

SpecSessions == InitSessions /\ [][NextSessions]_vars

-----------------------------------------------------------------------------
(* Claims about loading what is not on disk *)

\* no file is found for shortPath: a relative path is in no data directory,
\* an absolute one names no file
notOnDisk(fs, shortPath) == ~fileExists(fs, resolvedPath(fs, shortPath))

\* a profile of the index was loaded from, or saved to, the file shortPath names
alreadyLoaded(shortPath) ==
    \E p \in profiles :
        /\ isPropertySet(propertyValues, p, "Path")
        /\ Prop(p, "Path") = resolvedPath(files, shortPath)

\* C14: when the requested profile path does not exist on disk and is not
\* already loaded, loadProfile returns the null handle and leaves the index
\* of loaded profiles unchanged, whatever the index holds, profiles without
\* a Path included.
C14_NotFoundLoadReturnsNull ==
    [][(/\ last'.op = "loadProfile"
        /\ notOnDisk(files, last'.shortPath)
        /\ ~alreadyLoaded(last'.shortPath))
       => /\ last'.ret = NoProfile
          /\ profiles' = profiles]_vars

\* the file read by the last loadProfile names a parent for which no file
\* is found
namesMissingParent ==
    /\ last.op = "loadProfile"
    /\ last.ret \in profiles
    /\ Len(last.reads) >= 1
    /\ last.reads[1] = pathOf(Running, last.ret)
    /\ fileExists(files, last.reads[1])
    /\ files[last.reads[1]].parent # Null
    /\ files[last.reads[1]].parent # FallbackPath
    /\ notOnDisk(files, files[last.reads[1]].parent)

\* C15: when a profile file is read and names a parent whose file cannot be
\* loaded, loadProfile returns the child, registered in the index, and the
\* child has no parent.
C15_MissingParentLeavesChildWithoutParent ==
    namesMissingParent => parent[last.ret] = NoProfile

-----------------------------------------------------------------------------
(* Claims about changeProfile *)

\* the sessions of _sessions bound to profile, in the order of _sessions
RECURSIVE boundFrom(_, _)
boundFrom(profile, i) ==
    IF i > Len(sessions) THEN <<>>
    ELSE IF sessionProfiles[sessions[i]] = profile
         THEN <<sessions[i]>> \o boundFrom(profile, i + 1)
         ELSE boundFrom(profile, i + 1)

\* the sessions bound to members[i], members[i+1], ..., member after member
RECURSIVE boundToMembers(_, _)
boundToMembers(members, i) ==
    IF i > Len(members) THEN <<>>
    ELSE boundFrom(members[i], 1) \o boundToMembers(members, i + 1)

\* the setters that take a property of propertyMap
settersOf(propertyMap) ==
    {setter \in DOMAIN SessionSetters : SessionSetters[setter] \cap DOMAIN propertyMap # {}}

\* C16: changeProfile(G, changes, persistent) on a ProfileGroup G stores
\* every entry of changes that a member may receive in each member,
\* re-applies each member to the sessions bound to it, and emits
\* profileChanged once for each member and never for G.
C16_GroupChangeReachesEveryMember ==
    [][(/\ last'.op = "changeProfile"
        /\ last'.profile \in DOMAIN groupProfiles
        /\ DistinctMembers(last'.profile))
       => LET members == groupProfiles[last'.profile]
              received == DOMAIN last'.propertyMap \ {"Name", "Path"}
          IN  /\ \A i \in DOMAIN members : \A x \in received :
                     /\ isPropertySet(propertyValues', members[i], x)
                     /\ propertyValues'[members[i]][x] = last'.propertyMap[x]
              /\ [i \in DOMAIN last'.applied |-> last'.applied[i].session]
                     = boundToMembers(members, 1)
              /\ \A i \in DOMAIN last'.applied :
                     LET a == last'.applied[i]
                     IN  /\ settersOf(last'.propertyMap) \subseteq a.setters
                         /\ \A setter \in settersOf(last'.propertyMap) :
                                sessionSettings'[a.session][setter] =
                                    setterArgument(propertyValues', parent',
                                                   sessionProfiles[a.session], setter)
              /\ last'.emitted = members]_vars

\* the Icon of a group of two members was changed, a session being bound
\* to the second member
C16_Witness ==
    /\ last.op = "changeProfile"
    /\ last.profile \in DOMAIN groupProfiles
    /\ DistinctMembers(last.profile)
    /\ Len(groupProfiles[last.profile]) = 2
    /\ Len(last.applied) = 1
    /\ sessionProfiles[last.applied[1].session] = groupProfiles[last.profile][2]
    /\ sessionSettings[last.applied[1].session].setIconName = "a"
    /\ "Icon" \in DOMAIN last.propertyMap
    /\ Len(last.emitted) = 2

\* C17: changeProfile(P, changes, persistent) on a profile P that is not a
\* group writes P to disk and sets the Path of P to the path of the writer
\* if and only if persistent is true, P is not hidden and the Name of P
\* after the changes is not empty; otherwise no file is written and the
\* Path of P changes only by a Path entry of changes.
C17_SavedIffPersistentVisibleAndNamed ==
    [][(/\ last'.op = "changeProfile"
        /\ last'.profile \notin DOMAIN groupProfiles)
       => LET profile == last'.profile
              changed == setAll(propertyValues, groupProfiles, profile, last'.propertyMap,
                                DOMAIN last'.propertyMap)
              newPath == getPath(changed, parent, profile)
              saved == /\ last'.persistent
                       /\ ~hidden[profile]
                       /\ asString(property(changed, parent, profile, "Name")) # ""
          IN  IF saved
              THEN /\ last'.writes = <<profile>>
                   /\ files' = writeProfile(files, changed, parent, newPath, profile)
                   /\ isPropertySet(propertyValues', profile, "Path")
                   /\ propertyValues'[profile]["Path"] = newPath
              ELSE /\ last'.writes = <<>>
                   /\ files' = files
                   /\ propertyValues' = changed]_vars

\* a profile loaded from the system directory was saved to the user's
C17_Witness ==
    /\ last.op = "changeProfile"
    /\ last.profile \notin DOMAIN groupProfiles
    /\ last.persistent
    /\ last.writes = <<last.profile>>
    /\ startsWith(asString(Prop(last.profile, "Path")), SaveLocation)
    /\ fileExists(files, asString(Prop(last.profile, "Path")))
    /\ \E path \in DOMAIN firstLoad :
           firstLoad[path] = last.profile /\ ~startsWith(path, SaveLocation)

\* C18: when a persistent save fails because the writer cannot write the
\* target, the caller does not mark the profile as saved: the Path of the
\* profile is left unchanged and the failure is reported.
C18_FailedSaveLeavesPathUnchanged ==
    [][(/\ last'.op = "changeProfile"
        /\ last'.profile \notin DOMAIN groupProfiles
        /\ last'.writes = <<last'.profile>>
        /\ ~isWritable(files, getPath(setAll(propertyValues, groupProfiles, last'.profile,
                                             last'.propertyMap, DOMAIN last'.propertyMap),
                                      parent, last'.profile)))
       => /\ property(propertyValues', parent', last'.profile, "Path")
                 = Prop(last'.profile, "Path")
          /\ last'.failures = <<last'.profile>>]_vars

\* C19: changeProfile(P, changes, persistent) on a profile P that is not a
\* group re-applies P to exactly the live sessions bound to P: each of them
\* receives the new value of every changed property that a setter takes,
\* and a session bound to another profile receives no setter call and
\* keeps its binding.
C19_ChangeReappliesToBoundSessionsOnly ==
    [][(/\ last'.op = "changeProfile"
        /\ last'.profile \notin DOMAIN groupProfiles)
       => /\ [i \in DOMAIN last'.applied |-> last'.applied[i].session]
                 = boundFrom(last'.profile, 1)
          /\ sessions' = sessions
          /\ sessionProfiles' = sessionProfiles
          /\ \A s \in Sessions :
                 IF sessionProfiles[s] = last'.profile
                 THEN \A setter \in settersOf(last'.propertyMap) :
                          \A x \in SessionSetters[setter] \cap DOMAIN last'.propertyMap :
                              sessionSettings'[s][setter] = last'.propertyMap[x]
                 ELSE sessionSettings'[s] = sessionSettings[s]]_vars

\* the Icon of a profile was changed while one session was bound to it and
\* another session to another profile
C19_Witness ==
    /\ last.op = "changeProfile"
    /\ last.profile \notin DOMAIN groupProfiles
    /\ "Icon" \in DOMAIN last.propertyMap
    /\ Len(last.applied) = 1
    /\ Len(sessions) = 2
    /\ sessionSettings[last.applied[1].session].setIconName = "a"
    /\ \E s \in Sessions :
           /\ sessionProfiles[s] # last.profile
           /\ sessionSettings[s].setIconName # "a"

-----------------------------------------------------------------------------
(* Claims about the runtime profile of a session *)

\* C20: a session has no runtime profile until its first inline command;
\* that command makes one new Profile whose parent is the profile the
\* session is bound to then, stores the parsed changes in it and in no
\* other profile, and binds the session to it; every later inline command
\* of the session reuses that Profile.
C20_RuntimeProfileLifecycle ==
    [][/\ (last'.op # "sessionProfileCommandReceived"
              => sessionRuntimeProfiles' = sessionRuntimeProfiles)
       /\ (last'.op = "sessionProfileCommandReceived"
              => LET s == last'.session
                     parsed == parse(last'.text)
                     overlay == sessionRuntimeProfiles'[s]
                 IN  /\ DOMAIN sessionRuntimeProfiles' = DOMAIN sessionRuntimeProfiles \cup {s}
                     /\ \A x \in DOMAIN sessionRuntimeProfiles :
                            sessionRuntimeProfiles'[x] = sessionRuntimeProfiles[x]
                     /\ IF s \in DOMAIN sessionRuntimeProfiles
                        THEN DOMAIN propertyValues' = Objects
                        ELSE /\ overlay \notin Objects
                             /\ DOMAIN propertyValues' = Objects \cup {overlay}
                             /\ parent'[overlay] = sessionProfiles[s]
                             /\ DOMAIN propertyValues'[overlay] = DOMAIN parsed
                     /\ \A x \in DOMAIN parsed : propertyValues'[overlay][x] = parsed[x]
                     /\ \A o \in Objects \ {overlay} : propertyValues'[o] = propertyValues[o]
                     /\ \A o \in Objects : parent'[o] = parent[o]
                     /\ sessionProfiles' = [sessionProfiles EXCEPT ![s] = overlay])]_vars

\* a session sent a second inline command: its runtime profile holds the
\* values of both commands and the profile it was created with none of them
C20_Witness ==
    /\ last.op = "sessionProfileCommandReceived"
    /\ ops = 2
    /\ LET overlay == sessionRuntimeProfiles[last.session]
       IN  /\ sessionProfiles[last.session] = overlay
           /\ DOMAIN propertyValues[overlay] = {"Icon", "Directory"}
           /\ parent[overlay] = defaultProfile
           /\ ~isPropertySet(propertyValues, defaultProfile, "Icon")
           /\ sessionSettings[last.session].setIconName = "x"

\* the runtime profiles of the sessions
RuntimeProfiles == {sessionRuntimeProfiles[s] : s \in DOMAIN sessionRuntimeProfiles}

\* C21: the runtime profile an inline command makes for a session is
\* hidden, and no sequence of inline commands followed by a persistent
\* changeProfile of the session's profile writes it to disk.
C21_RuntimeProfilesHiddenAndNeverSaved ==
    /\ \A o \in RuntimeProfiles : hidden[o]
    /\ last.op = "changeProfile" =>
           \A i \in DOMAIN last.writes : last.writes[i] \notin RuntimeProfiles

\* the profile named by an inline command was written to the user's directory
RuntimeProfileSaved ==
    /\ last.op = "changeProfile"
    /\ last.writes # <<>>
    /\ last.writes[1] \in RuntimeProfiles
    /\ fileExists(files, "/home/konsole/x.profile")

-----------------------------------------------------------------------------
(* SessionManager::sortProfiles on its own: three profiles that inherit    *)
(* from the fallback profile, each named and with MenuIndex set or not.    *)

\* QString::number(n)
number(n) == SubSeq("0123456789", n + 1, n + 1)

\* QString::toInt(&ok, 10) followed by the test of ok in menuIndexAsInt:
\* the number a string of one digit denotes, 0 for any other string
toIntOrZero(str) ==
    IF \E n \in 0..9 : number(n) = str THEN CHOOSE n \in 0..9 : number(n) = str ELSE 0

\* Profile::menuIndexAsInt
menuIndexAsInt(pv, par, p) == toIntOrZero(asString(property(pv, par, p, "MenuIndex")))

\* the names of the profiles sorted, in the order of QString::localeAwareCompare
SortedNames == <<"Abc", "Mid", "Zeta">>

\* QString::localeAwareCompare(a, b) <= 0; a name outside SortedNames (the
\* empty name of a profile without one) comes first
nameRank(name) ==
    IF \E i \in DOMAIN SortedNames : SortedNames[i] = name
    THEN CHOOSE i \in DOMAIN SortedNames : SortedNames[i] = name
    ELSE 0

\* profileIndexLessThan(p1, p2)
profileIndexLessThan(pv, par, p1, p2) ==
    menuIndexAsInt(pv, par, p1) <= menuIndexAsInt(pv, par, p2)

\* profileNameLessThan(p1, p2)
profileNameLessThan(pv, par, p1, p2) ==
    nameRank(asString(property(pv, par, p1, "Name")))
        <= nameRank(asString(property(pv, par, p2, "Name")))

\* the rearrangements of list
Rearrangements(list) ==
    {[i \in DOMAIN list |-> list[f[i]]] :
        f \in {g \in [DOMAIN list -> DOMAIN list] : \A i, j \in DOMAIN list : i # j => g[i] # g[j]}}

\* qStableSort(list.begin(), list.end(), lessThan) called with a lessThan
\* that holds for equal elements: the results are in ascending order, and
\* the order of the elements that compare equal is not determined
qStableSort(list, lessThan(_, _)) ==
    {out \in Rearrangements(list) :
        \A i, j \in DOMAIN out : i < j => lessThan(out[i], out[j])}

\* loops that leave every MenuIndex as it was
renumber_KeepOld(pv, list, i) == pv

\* the two loops of sortProfiles that set MenuIndex, from position i on
RECURSIVE renumber(_, _, _)
renumber(pv, list, i) ==
    IF i > Len(list) THEN pv
    ELSE renumber(setProperty(pv, list[i], "MenuIndex", number(i)), list, i + 1)

\* SessionManager::sortProfiles(list): the lists and stores it may leave
sortProfiles(pv, par, list) ==
    LET kept(p) == asString(property(pv, par, p, "Path"))
                       # asString(property(pv, par, Fallback, "Path"))
        indexed(p) == kept(p) /\ menuIndexAsInt(pv, par, p) # 0
        unindexed(p) == kept(p) /\ menuIndexAsInt(pv, par, p) = 0
        byIndex(p1, p2) == profileIndexLessThan(pv, par, p1, p2)
        byName(p1, p2) == profileNameLessThan(pv, par, p1, p2)
    IN  {[list |-> havingIndices \o lackingIndices,
          pv |-> renumber(pv, havingIndices \o lackingIndices, 1)] :
             havingIndices \in qStableSort(SelectSeq(list, indexed), byIndex),
             lackingIndices \in qStableSort(SelectSeq(list, unindexed), byName)}

\* sortProfiles calls per behaviour
MaxSorts == 1

\* SessionManager::sortProfiles(list)
SortProfiles(list) ==
    /\ ops < MaxSorts
    /\ \E out \in sortProfiles(propertyValues, parent, list) :
           /\ propertyValues' = out.pv
           /\ last' = [op |-> "sortProfiles", list |-> list, sorted |-> out.list]
    /\ ops' = ops + 1
    /\ UNCHANGED <<parent, hidden, groupProfiles, parserVars, managerVars>>

\* what a listed profile stores: a Name, a Path, and a MenuIndex or none
MenuIndices == {Null, "1", "2", "x"}
ListedStore(name, path, index) ==
    IF index = Null THEN [Name |-> name, Path |-> path]
    ELSE [Name |-> name, Path |-> path, MenuIndex |-> index]

InitSort ==
    /\ \E n2, n3, n4 \in DOMAIN SortedNames, i2, i3, i4 \in MenuIndices :
           /\ n2 <= n3 /\ n3 <= n4
           /\ propertyValues = <<FallbackProperties,
                                 ListedStore(SortedNames[n2], "/usr/konsole/2.profile", i2),
                                 ListedStore(SortedNames[n3], "/usr/konsole/3.profile", i3),
                                 ListedStore(SortedNames[n4], "/usr/konsole/4.profile", i4)>>
    /\ parent = <<NoProfile, Fallback, Fallback, Fallback>>
    /\ hidden = <<TRUE, FALSE, FALSE, FALSE>>
    /\ groupProfiles = <<>>
    /\ last = NoOp
    /\ ops = 0
    /\ Idle

\* the lists sorted: two or more of the profiles, each once, the fallback
\* profile among them or not
SortedLists ==
    UNION {Rearrangements(list) :
              list \in {<<2, 3>>, <<2, 4>>, <<3, 4>>, <<2, 3, 4>>,
                        <<1, 2, 3>>, <<1, 2, 4>>, <<1, 3, 4>>, <<1, 2, 3, 4>>}}

NextSort == \E list \in SortedLists : SortProfiles(list)

SpecSort == InitSort /\ [][NextSort]_vars

\* the elements of a list
Range(list) == {list[i] : i \in DOMAIN list}

\* the position of p in list
indexOfProfile(list, p) == CHOOSE i \in DOMAIN list : list[i] = p

\* C22: sortProfiles leaves in the list exactly the input profiles other
\* than the fallback profile, each once; those whose menu index was not 0
\* come first, in ascending order of that index, then those whose index
\* was 0, in ascending order of their names; and the profile at position k
\* of the result has MenuIndex k.
C22_SortProfilesShape ==
    [][last'.op = "sortProfiles" =>
          LET in == last'.list
              out == last'.sorted
              old(p) == menuIndexAsInt(propertyValues, parent, p)
              name(p) == nameRank(asString(Prop(p, "Name")))
          IN  /\ Range(out) = Range(in) \ {Fallback}
              /\ \A i, j \in DOMAIN out : i # j => out[i] # out[j]
              /\ \A i, j \in DOMAIN out : i < j =>
                     \/ old(out[i]) # 0 /\ old(out[j]) = 0
                     \/ old(out[i]) # 0 /\ old(out[j]) # 0 /\ old(out[i]) <= old(out[j])
                     \/ old(out[i]) = 0 /\ old(out[j]) = 0 /\ name(out[i]) <= name(out[j])
              /\ \A k \in DOMAIN out :
                     /\ isPropertySet(propertyValues', out[k], "MenuIndex")
                     /\ propertyValues'[out[k]]["MenuIndex"] = number(k)
                     /\ menuIndexAsInt(propertyValues', parent', out[k]) = k]_vars

\* the list [Zeta/0, Abc/2, Mid/1] was sorted into [Mid->1, Abc->2, Zeta->3]
C22_Witness ==
    /\ last.op = "sortProfiles"
    /\ Len(last.list) = 3
    /\ LET in == last.list
           out == last.sorted
       IN  /\ out = <<in[3], in[2], in[1]>>
           /\ Prop(out[1], "Name") = "Mid" /\ Prop(out[1], "MenuIndex") = "1"
           /\ Prop(out[2], "Name") = "Abc" /\ Prop(out[2], "MenuIndex") = "2"
           /\ Prop(out[3], "Name") = "Zeta" /\ Prop(out[3], "MenuIndex") = "3"

\* C28: sortProfiles is stable on ties: two input profiles with equal
\* non-zero menu index keep their input order in the result, and so do two
\* profiles without an index whose names compare equal.
C28_SortProfilesStable ==
    [][last'.op = "sortProfiles" =>
          LET in == last'.list
              out == last'.sorted
              old(p) == menuIndexAsInt(propertyValues, parent, p)
              name(p) == nameRank(asString(Prop(p, "Name")))
          IN  \A p, q \in Range(out) :
                  (/\ indexOfProfile(in, p) < indexOfProfile(in, q)
                   /\ old(p) = old(q)
                   /\ old(p) = 0 => name(p) = name(q))
                  => indexOfProfile(out, p) < indexOfProfile(out, q)]_vars

-----------------------------------------------------------------------------
(* Invariants of the sessions and of the index *)

\* the setters of the properties Command, Arguments, Directory, Icon,
\* KeyBindings, the tab title formats, FlowControlEnabled, SilenceSeconds
\* and CJKAmbiguousWide
ConsistentSetters ==
    {"setProgram", "setArguments", "setInitialWorkingDirectory", "setIconName",
     "setKeyBindings", "setLocalTabTitleFormat", "setRemoteTabTitleFormat",
     "setFlowControlEnabled", "setMonitorSilenceSeconds", "setCJKAmbiguousWide"}

\* C29: after any sequence of createSession, setSessionProfile,
\* changeProfile and inline commands, for every live session S and each of
\* these properties X, the value last handed to the setter of S equals
\* sessionProfile(S).property(X).
C29_SessionsShowTheirProfile ==
    \A session \in Sessions : \A setter \in ConsistentSetters :
        sessionSettings[session][setter] =
            setterArgument(propertyValues, parent, sessionProfiles[session], setter)

\* C30: no two distinct profiles of the index of loaded profiles have the
\* same non-empty Path.
C30_PathsUniqueInIndex ==
    \A p, q \in profiles :
        (p # q /\ pathOf(Running, p) # "") => pathOf(Running, p) # pathOf(Running, q)

-----------------------------------------------------------------------------
(* Favorites and shortcuts: the manager is constructed over a disk and a   *)
(* konsolerc, then favorites and shortcuts are looked up.                  *)

RECURSIVE loadEach(_, _)
\* the second loop of loadFavorites: loadProfile for each path of
\* favoriteSet, in the order QSet iterates, the profiles loaded being
\* inserted in _favorites
loadEach(st, favoriteSet) ==
    IF favoriteSet = {} THEN {st}
    ELSE UNION {UNION {loadEach([o EXCEPT !.favorites = IF o.ret # NoProfile
                                                        THEN @ \cup {o.ret} ELSE @],
                                favoriteSet \ {path}) :
                           o \in loadProfile(st, path)} :
                    path \in favoriteSet}

\* SessionManager::loadFavorites
loadFavorites(st) ==
    LET favoriteSet == IF st.rc.hasFavorites THEN st.rc.Favorites
                       ELSE {"Shell.profile"}
        \* the first loop: of the loaded profiles with a path of favoriteSet,
        \* the one met first for each path
        found == {path \in favoriteSet : \E p \in st.profiles : pathOf(st, p) = path}
        choices == [found -> st.profiles]
        met == {c \in choices : \A path \in found : pathOf(st, c[path]) = path}
        counted == [st EXCEPT !.favoriteReads = @ + 1]
    IN  UNION {{[o EXCEPT !.loadedFavorites = TRUE] :
                   o \in loadEach([counted EXCEPT !.favorites =
                                       @ \cup {c[path] : path \in found}],
                                  favoriteSet \ found)} :
                  c \in met}

\* a lookup that reads the favorites from konsolerc at every call
findFavorites_AlwaysLoad(st) == loadFavorites(st)

\* SessionManager::findFavorites; the set returned is _favorites
findFavorites(st) ==
    IF ~st.loadedFavorites THEN loadFavorites(st) ELSE {st}

\* SessionManager::setFavorite
setFavorite(st, profile, favorite) ==
    LET added == IF profile \notin st.profiles THEN addProfile(st, profile) ELSE st
    IN  [added EXCEPT !.favorites = IF favorite THEN @ \cup {profile} ELSE @ \ {profile}]

\* a lookup that loads the profile of the shortcut at every call
findByShortcut_AlwaysLoad(st, shortcut) ==
    {IF o.ret = NoProfile
     THEN [o EXCEPT !.shortcuts = Restrict(@, DOMAIN @ \ {shortcut})]
     ELSE [o EXCEPT !.shortcuts = [@ EXCEPT ![shortcut].profileKey = o.ret]] :
        o \in loadProfile([st EXCEPT !.loadCalls = Append(@, st.shortcuts[shortcut].profilePath)],
                          st.shortcuts[shortcut].profilePath)}

\* SessionManager::findByShortcut(shortcut), shortcut being in _shortcuts
findByShortcut(st, shortcut) ==
    IF st.shortcuts[shortcut].profileKey = NoProfile
    THEN {IF o.ret = NoProfile
          THEN [o EXCEPT !.shortcuts = Restrict(@, DOMAIN @ \ {shortcut})]
          ELSE [o EXCEPT !.shortcuts = [@ EXCEPT ![shortcut].profileKey = o.ret]] :
             o \in loadProfile([st EXCEPT !.loadCalls =
                                    Append(@, st.shortcuts[shortcut].profilePath)],
                               st.shortcuts[shortcut].profilePath)}
    ELSE {[st EXCEPT !.ret = st.shortcuts[shortcut].profileKey]}

\* the disks: A.profile, B.profile whose parent is A.profile, and
\* Shell.profile or not
SettingsDisks ==
    {[f \in {PathA, PathB} |-> IF f = PathA THEN File(Null, "A") ELSE File("A.profile", "B")],
     [f \in {PathA, PathB, PathShell} |->
         IF f = PathA THEN File(Null, "A")
         ELSE IF f = PathB THEN File("A.profile", "B")
         ELSE File(Null, "Shell")]}

PathMissing == "/usr/konsole/Missing.profile"

\* what konsolerc may hold: a DefaultProfile key or none, a Favorites key or
\* none, one shortcut or none
Konsolercs ==
    {rc \in [DefaultProfile : {Null, "B.profile", "Missing.profile"},
             hasFavorites : BOOLEAN,
             Favorites : {{}, {PathA}, {PathB, PathMissing}},
             Shortcuts : {<<>>} \cup {[k \in {"Ctrl+1"} |-> path] :
                                          path \in {PathB, PathMissing}}] :
        ~rc.hasFavorites => rc.Favorites = {}}

InitSettings ==
    \E disk \in SettingsDisks, rc \in Konsolercs : \E st \in constructedFrom(disk, rc) :
        /\ propertyValues = st.pv
        /\ parent = st.par
        /\ hidden = st.hid
        /\ groupProfiles = st.gp
        /\ files = st.fs
        /\ profiles = st.profiles
        /\ defaultProfile = st.defaultProfile
        /\ recursionGuard = st.guard
        /\ sessions = st.sessions
        /\ sessionProfiles = st.sessionProfiles
        /\ sessionRuntimeProfiles = st.runtime
        /\ sessionSettings = st.settings
        /\ favorites = st.favorites
        /\ loadedFavorites = st.loadedFavorites
        /\ shortcuts = st.shortcuts
        /\ konsolerc = st.rc
        /\ favoriteReads = st.favoriteReads
        /\ sessionConfig = st.config
        /\ firstLoad = firstLoads(<<>>, {Fallback}, st)
        /\ input = <<>>
        /\ changes = <<>>
        /\ last = NoOp
        /\ ops = 0

\* SessionManager::findFavorites()
FindFavorites ==
    /\ ops < MaxManagerOps
    /\ \E st \in findFavorites(Running) :
           /\ Leaves(st)
           /\ firstLoad' = firstLoads(firstLoad, profiles, st)
           /\ last' = [op |-> "findFavorites", ret |-> st.favorites, reads |-> st.reads]
    /\ ops' = ops + 1
    /\ UNCHANGED parserVars

\* SessionManager::setFavorite(profile, favorite)
SetFavorite(profile, favorite) ==
    /\ ops < MaxManagerOps
    /\ Leaves(setFavorite(Running, profile, favorite))
    /\ last' = [op |-> "setFavorite", profile |-> profile, favorite |-> favorite]
    /\ ops' = ops + 1
    /\ UNCHANGED <<parserVars, firstLoad>>

\* SessionManager::findByShortcut(shortcut)
FindByShortcut(shortcut) ==
    /\ ops < MaxManagerOps
    /\ shortcut \in DOMAIN shortcuts
    /\ \E st \in findByShortcut(Running, shortcut) :
           /\ Leaves(st)
           /\ firstLoad' = firstLoads(firstLoad, profiles, st)
           /\ last' = [op |-> "findByShortcut", shortcut |-> shortcut, ret |-> st.ret,
                       loadCalls |-> st.loadCalls]
    /\ ops' = ops + 1
    /\ UNCHANGED parserVars

NextSettings ==
    \/ FindFavorites
    \/ \E profile \in profiles, favorite \in BOOLEAN : SetFavorite(profile, favorite)
    \/ \E shortcut \in DOMAIN shortcuts : FindByShortcut(shortcut)
    \/ \E shortPath \in {"B", PathMissing} : LoadProfile(shortPath)

SpecSettings == InitSettings /\ [][NextSettings]_vars

\* the profile of the index read from Shell.profile, if there is one
LoadedShell(pv, par, index) ==
    {p \in index : asString(property(pv, par, p, "Path")) = PathShell}

\* C23: no favorites are read from konsolerc before the first
\* findFavorites call; the first call reads them and sets _loadedFavorites,
\* later calls do not read again; and when konsolerc has no Favorites key
\* and Shell.profile can be loaded, the favorites loaded are that profile
\* alone.
C23_FavoritesLoadedOnce ==
    [][/\ favoriteReads' = IF loadedFavorites' THEN 1 ELSE 0
       /\ (last'.op # "findFavorites" =>
              /\ loadedFavorites' = loadedFavorites
              /\ favoriteReads' = favoriteReads)
       /\ (last'.op = "findFavorites" =>
              /\ loadedFavorites'
              /\ last'.ret = favorites'
              /\ loadedFavorites =>
                     /\ favoriteReads' = favoriteReads
                     /\ favorites' = favorites
                     /\ profiles' = profiles
                     /\ last'.reads = <<>>
              /\ (~loadedFavorites /\ ~konsolerc.hasFavorites
                      /\ fileExists(files, PathShell)) =>
                     /\ Cardinality(LoadedShell(propertyValues', parent', profiles')) = 1
                     /\ favorites' = favorites
                            \cup LoadedShell(propertyValues', parent', profiles'))]_vars

\* findFavorites was called twice, konsolerc having no Favorites key: the
\* favorites are the profile of Shell.profile
C23_Witness ==
    /\ last.op = "findFavorites"
    /\ ops = 2
    /\ ~konsolerc.hasFavorites
    /\ konsolerc.DefaultProfile # Null
    /\ favoriteReads = 1
    /\ favorites = LoadedShell(propertyValues, parent, profiles)
    /\ favorites # {}

\* C24: loading the shortcuts at startup loads no profile; the first
\* findByShortcut(k) of an entry not yet resolved calls loadProfile with the
\* path stored and keeps the profile in the entry; later calls return that
\* profile without calling loadProfile; when the load fails the entry is
\* removed and the null handle returned.
C24_ShortcutsResolvedOnDemand ==
    [][/\ ops = 0 =>
              /\ DOMAIN shortcuts = DOMAIN konsolerc.Shortcuts
              /\ \A k \in DOMAIN shortcuts :
                     /\ shortcuts[k].profileKey = NoProfile
                     /\ shortcuts[k].profilePath = konsolerc.Shortcuts[k]
              /\ \A st \in constructedFrom(files, [konsolerc EXCEPT !.Shortcuts = <<>>]) :
                     st.profiles = profiles
       /\ last'.op = "findByShortcut" =>
              LET k == last'.shortcut
              IN  IF shortcuts[k].profileKey # NoProfile
                  THEN /\ last'.ret = shortcuts[k].profileKey
                       /\ last'.loadCalls = <<>>
                       /\ shortcuts' = shortcuts
                       /\ profiles' = profiles
                  ELSE /\ last'.loadCalls = <<shortcuts[k].profilePath>>
                       /\ IF last'.ret # NoProfile
                          THEN shortcuts' = [shortcuts EXCEPT ![k].profileKey = last'.ret]
                          ELSE shortcuts' = Restrict(shortcuts, DOMAIN shortcuts \ {k})]_vars

\* the same shortcut was looked up twice: the second call returned the
\* profile the first had loaded
C24_Witness ==
    /\ last.op = "findByShortcut"
    /\ ops = 2
    /\ last.loadCalls = <<>>
    /\ last.ret \notin {NoProfile, Fallback}
    /\ shortcuts[last.shortcut].profileKey = last.ret
    /\ pathOf(Running, last.ret) = PathB
    /\ konsolerc.DefaultProfile = Null

-----------------------------------------------------------------------------
(* Claims about construction and about the recursion of loadProfile *)

\* the file the constructor looks for
configuredDefault ==
    locate(files, "konsole/" \o (IF konsolerc.DefaultProfile = Null THEN "Shell.profile"
                                 ELSE konsolerc.DefaultProfile))

\* C25: after the construction of SessionManager the fallback profile is in
\* the index of loaded profiles and the default profile is not null: it is
\* the profile of the configured default file when that file is found and
\* loads, and the fallback profile otherwise.
C25_DefaultAfterConstruction ==
    /\ Fallback \in profiles
    /\ defaultProfile \in profiles
    /\ ops = 0 =>
           IF configuredDefault # ""
           THEN /\ defaultProfile # Fallback
                /\ pathOf(Running, defaultProfile) = configuredDefault
                /\ Prop(defaultProfile, "Name") = files[configuredDefault].values["Name"]
           ELSE defaultProfile = Fallback

\* the manager was constructed with DefaultProfile=B.profile in konsolerc
C25_Witness ==
    /\ ops = 0
    /\ konsolerc.DefaultProfile = "B.profile"
    /\ defaultProfile \notin {NoProfile, Fallback}
    /\ Prop(defaultProfile, "Name") = "B"
    /\ Cardinality(profiles) = 3

\* loadProfile on its own: the manager is constructed over a disk, then
\* profiles are loaded
NextLoad == \E shortPath \in ShortPaths : LoadProfile(shortPath)

SpecLoad == InitManager /\ [][NextLoad]_vars

\* C26: loadProfile terminates for every set of profile files and every
\* assignment of Parent keys among them, self-parents and cycles included:
\* each call returns a loaded profile, the fallback profile or the null
\* handle, and the depth of the recursion is at most the number of profile
\* files plus one.
C26_LoadProfileTerminates ==
    [][/\ \A shortPath \in ShortPaths : loadProfile(Running, shortPath) # {}
       /\ last'.op = "loadProfile" =>
              /\ last'.ret \in profiles' \cup {NoProfile}
              /\ last'.maxDepth <= Cardinality(DOMAIN files) + 1]_vars

\* a load went around a cycle of all the files and was stopped one call deeper
C26_Witness ==
    /\ last.op = "loadProfile"
    /\ last.maxDepth = Cardinality(DOMAIN files) + 1
    /\ Len(last.reads) = Cardinality(DOMAIN files)
    /\ last.ret \in profiles \ {Fallback}

\* the stacks loadProfile may be entered with
EntryStacks == {<<>>, <<PathB>>, <<PathB, PathA>>}

\* C27: on every exit path of loadProfile the recursion-guard stack has the
\* content it had when the call was entered; so the stack is empty whenever
\* no loadProfile call is in progress, and a path that was rejected as
\* recursive inside one top-level load is loaded normally by a later
\* top-level call.
C27_GuardStackRestored ==
    /\ recursionGuard = <<>>
    /\ \A shortPath \in ShortPaths, stack \in EntryStacks :
           \A o \in loadProfile([Running EXCEPT !.guard = stack], shortPath) :
               o.guard = stack
    /\ (/\ last.op = "loadProfile"
        /\ last.shortPath # FallbackPath
        /\ ~isDir(last.shortPath)
        /\ fileExists(files, resolvedPath(files, last.shortPath)))
       => /\ last.ret \in profiles \ {Fallback}
          /\ pathOf(Running, last.ret) = resolvedPath(files, last.shortPath)

\* A.profile, rejected as recursive while it was being loaded with
\* B.profile, was asked for again and returned from the index
C27_Witness ==
    /\ last.op = "loadProfile"
    /\ ops = 2
    /\ NameEachOther(files, PathA, PathB)
    /\ last.reads = <<>>
    /\ last.ret # NoProfile
    /\ pathOf(Running, last.ret) = PathA
    /\ parent[last.ret] # NoProfile
    /\ pathOf(Running, parent[last.ret]) = PathB
    /\ parent[parent[last.ret]] = Fallback
    /\ recursionGuard = <<>>

-----------------------------------------------------------------------------
(* The settings over the life of the manager: profiles are deleted, given  *)
(* shortcuts, made favorites or the default, and the settings are saved.   *)

\* the key sequences used, in the order QMap<QKeySequence,...> keeps them
KeySequences == <<"Ctrl+1", "Ctrl+2">>

\* QKeySequence(): the empty key sequence
NoKey == ""

\* SessionManager::shortcut(profile): the first entry, in key order, whose
\* profileKey is profile or whose profilePath is profile->path()
shortcut(st, profile) ==
    LET matching == {i \in DOMAIN KeySequences :
                        /\ KeySequences[i] \in DOMAIN st.shortcuts
                        /\ \/ st.shortcuts[KeySequences[i]].profileKey = profile
                           \/ st.shortcuts[KeySequences[i]].profilePath = pathOf(st, profile)}
    IN  IF matching = {} THEN NoKey
        ELSE KeySequences[CHOOSE i \in matching : \A j \in matching : i <= j]

\* SessionManager::setShortcut(profile, keySequence)
setShortcut(st, profile, keySequence) ==
    LET existingShortcut == shortcut(st, profile)
        removed == Restrict(st.shortcuts, DOMAIN st.shortcuts \ {existingShortcut})
        data == [profileKey |-> profile, profilePath |-> pathOf(st, profile)]
    IN  IF keySequence = NoKey THEN [st EXCEPT !.shortcuts = removed]
        ELSE [st EXCEPT !.shortcuts =
                  [k \in DOMAIN removed \cup {keySequence} |->
                      IF k = keySequence THEN data ELSE removed[k]]]

\* SessionManager::setDefaultProfile(profile), profile being an object: the
\* Q_ASSERT of line 604 is recorded when it does not hold
setDefaultProfile(st, profile) ==
    LET path == IF pathOf(st, profile) = "" THEN getPath(st.pv, st.par, profile)
                ELSE pathOf(st, profile)
    IN  [st EXCEPT !.asserted = IF profile \in st.profiles THEN @
                                ELSE Append(@, "_profiles.contains(profile)"),
                   !.defaultProfile = profile,
                   !.rc = [@ EXCEPT !.DefaultProfile = fileName(path)]]

\* QFile::remove(path): the file is removed unless its directory is read-only
remove(fs, path) == Restrict(fs, DOMAIN fs \ {path})

\* SessionManager::deleteProfile(type), type being an object: the states it
\* may leave, deleted telling what it returned. _profiles.toList().first()
\* is any member of _profiles (QSet keeps no order); on an empty set it is
\* undefined, and any object or null may become the default.
deleteProfile(st, type) ==
    LET wasDefault == type = st.defaultProfile
        blocked == /\ isPropertySet(st.pv, type, "Path")
                   /\ fileExists(st.fs, pathOf(st, type))
                   /\ ~isWritable(st.fs, pathOf(st, type))
        unlinked == IF isPropertySet(st.pv, type, "Path")
                       /\ fileExists(st.fs, pathOf(st, type))
                    THEN [st EXCEPT !.fs = remove(@, pathOf(st, type))] ELSE st
        unset == setShortcut(setFavorite(unlinked, type, FALSE), type, NoKey)
        gone == [unset EXCEPT !.profiles = @ \ {type}, !.hid = [@ EXCEPT ![type] = TRUE]]
    IN  IF blocked THEN {[st |-> st, deleted |-> FALSE]}
        ELSE IF ~wasDefault THEN {[st |-> gone, deleted |-> TRUE]}
        ELSE IF gone.profiles # {}
        THEN {[st |-> setDefaultProfile(gone, first), deleted |-> TRUE] :
                 first \in gone.profiles}
        ELSE {[st |-> [gone EXCEPT !.asserted = Append(@, "!isEmpty()"),
                                   !.defaultProfile = garbage],
               deleted |-> TRUE] :
                 garbage \in DOMAIN gone.pv \cup {NoProfile}}

\* SessionManager::saveShortcuts
saveShortcuts(st) ==
    [st EXCEPT !.rc = [@ EXCEPT !.Shortcuts =
                           [k \in DOMAIN st.shortcuts |-> st.shortcuts[k].profilePath]]]

\* SessionManager::saveFavorites: the Q_ASSERT of line 752 is recorded when
\* it does not hold
saveFavorites(st) ==
    [st EXCEPT !.asserted = IF \A profile \in st.favorites :
                                   profile \in st.profiles /\ profile # NoProfile
                            THEN @ ELSE Append(@, "_profiles.contains(profile) && profile"),
               !.rc = [@ EXCEPT !.hasFavorites = TRUE,
                                !.Favorites = {pathOf(st, profile) :
                                                   profile \in st.favorites \ {NoProfile}}]]

\* SessionManager::saveSettings, the default profile being an object
saveSettings(st) ==
    saveFavorites(saveShortcuts(setDefaultProfile(st, st.defaultProfile)))

\* the disks: A.profile alone, or A.profile, Shell.profile and N.profile,
\* which cannot be removed
LifecycleDisks ==
    {[f \in {PathA} |-> File(Null, "A")],
     [f \in {PathA, PathShell, PathReadOnly} |->
         IF f = PathA THEN File(Null, "A")
         ELSE IF f = PathReadOnly THEN [File(Null, "N") EXCEPT !.writable = FALSE]
         ELSE File(Null, "Shell")]}

\* what konsolerc may hold, as saveSettings of an earlier run left it: a
\* DefaultProfile key or none; no Favorites key, or A.profile or the
\* fallback profile as the favorite; one shortcut or none
LifecycleRcs ==
    {rc \in [DefaultProfile : {Null, "N.profile"},
             hasFavorites : BOOLEAN,
             Favorites : {{}, {PathA}, {FallbackPath}},
             Shortcuts : {<<>>, [k \in {"Ctrl+1"} |-> PathA]}] :
        rc.hasFavorites <=> rc.Favorites # {}}

\* the states after the manager was constructed and a caller has
\* constructed two profiles, new Profile(fallbackProfile()), not yet added
constructedWithCallers(disk, rc) ==
    {newProfile(newProfile(st, Fallback), Fallback) : st \in constructedFrom(disk, rc)}

\* the profiles the callers hold: the loaded ones and the ones they made
InitLifecycle ==
    \E disk \in LifecycleDisks, rc \in LifecycleRcs :
        \E st \in constructedWithCallers(disk, rc) :
            /\ propertyValues = st.pv
            /\ parent = st.par
            /\ hidden = st.hid
            /\ groupProfiles = st.gp
            /\ files = st.fs
            /\ profiles = st.profiles
            /\ defaultProfile = st.defaultProfile
            /\ recursionGuard = st.guard
            /\ sessions = st.sessions
            /\ sessionProfiles = st.sessionProfiles
            /\ sessionRuntimeProfiles = st.runtime
            /\ sessionSettings = st.settings
            /\ favorites = st.favorites
            /\ loadedFavorites = st.loadedFavorites
            /\ shortcuts = st.shortcuts
            /\ konsolerc = st.rc
            /\ favoriteReads = st.favoriteReads
            /\ sessionConfig = st.config
            /\ firstLoad = firstLoads(<<>>, {Fallback}, st)
            /\ input = <<>>
            /\ changes = <<>>
            /\ last = NoOp
            /\ ops = 0

\* SessionManager::addProfile(type)
AddProfile(type) ==
    /\ ops < MaxManagerOps
    /\ Leaves(addProfile(Running, type))
    /\ last' = [op |-> "addProfile", profile |-> type]
    /\ ops' = ops + 1
    /\ UNCHANGED <<parserVars, firstLoad>>

\* SessionManager::setShortcut(profile, keySequence)
SetShortcut(profile, keySequence) ==
    /\ ops < MaxManagerOps
    /\ Leaves(setShortcut(Running, profile, keySequence))
    /\ last' = [op |-> "setShortcut", profile |-> profile, keySequence |-> keySequence]
    /\ ops' = ops + 1
    /\ UNCHANGED <<parserVars, firstLoad>>

\* SessionManager::setDefaultProfile(profile)
SetDefaultProfile(profile) ==
    /\ ops < MaxManagerOps
    /\ LET st == setDefaultProfile(Running, profile)
       IN  /\ Leaves(st)
           /\ last' = [op |-> "setDefaultProfile", profile |-> profile,
                       asserted |-> st.asserted]
    /\ ops' = ops + 1
    /\ UNCHANGED <<parserVars, firstLoad>>

\* SessionManager::deleteProfile(type)
DeleteProfile(type) ==
    /\ ops < MaxManagerOps
    /\ \E o \in deleteProfile(Running, type) :
           /\ Leaves(o.st)
           /\ last' = [op |-> "deleteProfile", profile |-> type, deleted |-> o.deleted,
                       asserted |-> o.st.asserted]
    /\ ops' = ops + 1
    /\ UNCHANGED <<parserVars, firstLoad>>

\* SessionManager::saveSettings()
SaveSettings ==
    /\ ops < MaxManagerOps
    /\ defaultProfile # NoProfile
    /\ LET st == saveSettings(Running)
       IN  /\ Leaves(st)
           /\ last' = [op |-> "saveSettings", asserted |-> st.asserted]
    /\ ops' = ops + 1
    /\ UNCHANGED <<parserVars, firstLoad>>

NextLifecycle ==
    \/ \E type \in Objects : AddProfile(type)
    \/ \E shortPath \in {"A", FallbackPath} : LoadProfile(shortPath)
    \/ FindFavorites
    \/ \E profile \in Objects, favorite \in BOOLEAN : SetFavorite(profile, favorite)
    \/ \E profile \in Objects, keySequence \in {NoKey, "Ctrl+1", "Ctrl+2"} :
           SetShortcut(profile, keySequence)
    \/ \E profile \in profiles : SetDefaultProfile(profile)
    \/ \E type \in Objects : DeleteProfile(type)
    \/ SaveSettings

SpecLifecycle == InitLifecycle /\ [][NextLifecycle]_vars

-----------------------------------------------------------------------------
(* Claims about the saved settings *)

\* C31: saveSettings keeps the persisted favorites: when no setFavorite and
\* no deleteProfile was called since startup, every path of the Favorites
\* list konsolerc held at startup whose file is still there is in the list
\* saveSettings writes, whether findFavorites was called before or not
C31_PersistedFavoritesKept ==
    [][(/\ last'.op = "saveSettings"
        /\ ops <= 1
        /\ last.op \notin {"setFavorite", "deleteProfile", "saveSettings"})
       => \A path \in konsolerc.Favorites :
              fileExists(files, path) => path \in konsolerc'.Favorites]_vars

\* the manager as the step leaves it, for what shortcut() reads
After ==
    [Running EXCEPT !.pv = propertyValues', !.par = parent', !.shortcuts = shortcuts',
                    !.profiles = profiles', !.favorites = favorites']

\* C32: setShortcut(P, k) leaves P with the shortcut k, or with none when k
\* is empty, and leaves the shortcut of every other profile that had a
\* shortcut other than k, given to it by setShortcut, as it was
C32_SetShortcutTouchesOnlyItsProfile ==
    [][last'.op = "setShortcut"
       => /\ shortcut(After, last'.profile) = last'.keySequence
          /\ \A other \in Objects \ {last'.profile} :
                 (/\ shortcut(Running, other) \notin {NoKey, last'.keySequence}
                  /\ shortcuts[shortcut(Running, other)].profileKey = other)
                 => shortcut(After, other) = shortcut(Running, other)]_vars

\* C34: the default profile is a profile of the index, never null, and the
\* assertions of the constructor and of setDefaultProfile hold
C34_DefaultProfileInIndex ==
    /\ defaultProfile # NoProfile
    /\ defaultProfile \in profiles
    /\ profiles # {}
    /\ "asserted" \in DOMAIN last => last.asserted = <<>>

\* C35: every favorite is a profile of the index, never null, so the
\* assertion of saveFavorites holds (stated for the states where the index
\* still holds a profile and the default profile is one of them)
C35_FavoritesAreLoadedProfiles ==
    (profiles # {} /\ defaultProfile \in profiles)
    => /\ \A profile \in favorites : profile # NoProfile /\ profile \in profiles
       /\ saveFavorites(Running).asserted = <<>>

\* the file of type exists and cannot be removed
cannotRemove(type) ==
    /\ isPropertySet(propertyValues, type, "Path")
    /\ fileExists(files, pathOf(Running, type))
    /\ ~isWritable(files, pathOf(Running, type))

\* C38: deleteProfile(type) returns false and changes nothing when the file of
\* type exists and cannot be removed; otherwise it returns true, and type is in
\* neither the index nor the favorites, no shortcut is type's, type is hidden
\* and, when type was the default, the default is another profile of the index
C38_DeleteProfileAllOrNothing ==
    [][last'.op = "deleteProfile"
       => LET type == last'.profile
          IN  IF cannotRemove(type)
              THEN /\ ~last'.deleted
                   /\ UNCHANGED <<files, profiles, favorites, shortcuts, defaultProfile>>
                   /\ hidden'[type] = hidden[type]
              ELSE /\ last'.deleted
                   /\ type \notin profiles'
                   /\ type \notin favorites'
                   /\ \A k \in DOMAIN shortcuts' : shortcuts'[k].profileKey # type
                   /\ shortcut(After, type) = NoKey
                   /\ hidden'[type]
                   /\ pathOf(Running, type) \notin DOMAIN files'
                   /\ type = defaultProfile
                      => defaultProfile' # type /\ defaultProfile' \in profiles']_vars

-----------------------------------------------------------------------------
(* Claims about the parent chains the loader builds *)

RECURSIVE parentChain(_, _, _)
\* p, parent() of p, its parent() and so on: the first n of them
parentChain(par, p, n) ==
    IF p = NoProfile \/ n = 0 THEN <<>>
    ELSE <<p>> \o parentChain(par, par[p], n - 1)

\* C33: following parent() from a profile of the index ends, at the fallback
\* profile or at a profile without a parent, and meets no profile twice;
\* property() of an inheritable property is the value of the first profile
\* of the chain that has it set
C33_ParentChainsAcyclic ==
    \A p \in profiles :
        LET chain == parentChain(parent, p, Cardinality(Objects) + 1)
            setting == {i \in DOMAIN chain : isPropertySet(propertyValues, chain[i], "Icon")}
        IN  /\ \A i, j \in DOMAIN chain : i # j => chain[i] # chain[j]
            /\ parent[chain[Len(chain)]] = NoProfile
            /\ Prop(p, "Icon") =
                   IF setting = {} THEN Null
                   ELSE propertyValues[chain[CHOOSE i \in setting :
                                                 \A j \in setting : i <= j]]["Icon"]

\* Shell.profile, A.profile and B.profile were loaded, A and B naming each
\* other: the chain from Shell's profile passes A's and B's and ends at the
\* fallback profile
C33_Witness ==
    /\ NameEachOther(files, PathA, PathB)
    /\ last.op = "loadProfile"
    /\ last.ret \notin {NoProfile, Fallback}
    /\ pathOf(Running, last.ret) = PathB
    /\ \E p \in profiles :
           LET chain == parentChain(parent, p, Cardinality(Objects) + 1)
           IN  /\ Len(chain) = 4
               /\ pathOf(Running, chain[1]) = PathShell
               /\ pathOf(Running, chain[2]) = PathA
               /\ pathOf(Running, chain[3]) = PathB
               /\ chain[4] = Fallback

-----------------------------------------------------------------------------
(* Sessions saved and restored: the manager is constructed, a first        *)
(* session is created for a loaded profile and may have sent an inline     *)
(* command; then sessions are rebound, saved and restored.                 *)

\* SessionManager::saveSessions(config): the Profile entry of group
\* "Session n" is the path of the profile the n-th session is bound to
saveSessions(st) ==
    [st EXCEPT !.config = [n \in DOMAIN st.sessions |->
                              pathOf(st, st.sessionProfiles[st.sessions[n]])]]

RECURSIVE restoreFrom(_, _)
\* the loop of SessionManager::restoreSessions(config), from group
\* "Session n" on: the states it may leave
restoreFrom(st, n) ==
    IF n > Len(st.config) THEN {st}
    ELSE IF st.config[n] = ""
    THEN restoreFrom(createSession(st, st.defaultProfile), n + 1)
    ELSE UNION {restoreFrom(createSession(o, o.ret), n + 1) :
                    o \in loadProfile(st, st.config[n])}

\* SessionManager::restoreSessions(config)
restoreSessions(st) == restoreFrom(st, 1)

\* the states after the manager was constructed, a caller has constructed
\* a profile, a first session was created for a loaded profile and,
\* in half of them, that session has sent the inline command Icon=x
restorable ==
    UNION {UNION {{createSession(newProfile(st, Fallback), profile),
                   sessionProfileCommandReceived(
                       createSession(newProfile(st, Fallback), profile), 1, "Icon=x")} :
                      profile \in st.profiles} :
               st \in constructed(SessionsDisk)}

InitRestore ==
    \E st \in restorable :
        /\ propertyValues = st.pv
        /\ parent = st.par
        /\ hidden = st.hid
        /\ groupProfiles = st.gp
        /\ files = st.fs
        /\ profiles = st.profiles
        /\ defaultProfile = st.defaultProfile
        /\ recursionGuard = st.guard
        /\ sessions = st.sessions
        /\ sessionProfiles = st.sessionProfiles
        /\ sessionRuntimeProfiles = st.runtime
        /\ sessionSettings = st.settings
        /\ favorites = st.favorites
        /\ loadedFavorites = st.loadedFavorites
        /\ shortcuts = st.shortcuts
        /\ konsolerc = st.rc
        /\ favoriteReads = st.favoriteReads
        /\ sessionConfig = st.config
        /\ firstLoad = firstLoads(<<>>, {Fallback}, st)
        /\ input = <<>>
        /\ changes = <<>>
        /\ last = NoOp
        /\ ops = 0

\* SessionManager::saveSessions(config)
SaveSessions ==
    /\ ops < MaxManagerOps
    /\ Leaves(saveSessions(Running))
    /\ last' = [op |-> "saveSessions"]
    /\ ops' = ops + 1
    /\ UNCHANGED <<parserVars, firstLoad>>

\* SessionManager::restoreSessions(config)
RestoreSessions ==
    /\ ops < MaxManagerOps
    /\ \E st \in restoreSessions(Running) :
           /\ Leaves(st)
           /\ firstLoad' = firstLoads(firstLoad, profiles, st)
           /\ last' = [op |-> "restoreSessions", reads |-> st.reads]
    /\ ops' = ops + 1
    /\ UNCHANGED parserVars

NextRestore ==
    \/ \E profile \in {NoProfile} \cup (Objects \ RuntimeProfiles) : CreateSession(profile)
    \/ \E session \in Sessions, text \in CommandTexts :
           SessionProfileCommandReceived(session, text)
    \/ \E session \in Sessions, profile \in profiles :
           SetSessionProfile(session, profile)
    \/ SaveSessions
    \/ RestoreSessions

SpecRestore == InitRestore /\ [][NextRestore]_vars

\* the profile that governs session: the parent of its runtime profile
\* when it is bound to that, the profile it is bound to otherwise
nominalProfile(session) ==
    IF /\ session \in DOMAIN sessionRuntimeProfiles
       /\ sessionProfiles[session] = sessionRuntimeProfiles[session]
    THEN parent[sessionRuntimeProfiles[session]]
    ELSE sessionProfiles[session]

\* C36: an inline command sent by a session that createSession or
\* setSessionProfile bound to Q leaves the session bound to its runtime
\* profile, whose parent is Q, so that what the command did not set is
\* read from Q
C36_OverlayTracksBoundProfile ==
    [][last'.op = "sessionProfileCommandReceived"
       => LET session == last'.session
              bound == sessionProfiles[session]
              overlay == sessionRuntimeProfiles'[session]
          IN  (session \notin DOMAIN sessionRuntimeProfiles
               \/ bound # sessionRuntimeProfiles[session])
              => /\ sessionProfiles'[session] = overlay
                 /\ parent'[overlay] = bound
                 /\ \A prop \in {"Icon", "Directory", "Command"} \ DOMAIN propertyValues'[overlay] :
                        property(propertyValues', parent', overlay, prop) = Prop(bound, prop)]_vars

\* C37: restoreSessions called right after saveSessions creates, for the
\* n-th session saved, a session bound to a profile with the Path of the
\* profile that governed the saved session, also when that session was
\* bound to its runtime profile; when the governing profile has no Path the
\* new session is bound to the default profile
C37_SessionsRestoredWithTheirProfile ==
    [][(last.op = "saveSessions" /\ last'.op = "restoreSessions")
       => /\ Len(sessions') = 2 * Len(sessions)
          /\ \A n \in DOMAIN sessions :
                 LET governing == nominalProfile(sessions[n])
                     restored == sessionProfiles'[sessions'[Len(sessions) + n]]
                 IN  IF pathOf(Running, governing) = ""
                     THEN restored = defaultProfile
                     ELSE pathOf(After, restored) = pathOf(Running, governing)]_vars

=============================================================================
